---- MODULE Spec2Model ----
(***************************************************************************)
(* Model of the Shade engine's camera, orbit controller, frame renderer    *)
(* and driver loop (src/src/render/Camera.js, src/unnamed/part_005,        *)
(* src/src/render/Renderer.js, src/unnamed/part_000, src/src/core/Scene.js)*)
(*                                                                         *)
(* JavaScript numbers are modelled in fixed point:                         *)
(*   lengths and plain factors  in units of 1/L  (L = 100)                 *)
(*   angles                     in units of 1/A  radian (A = 100000)       *)
(*   sines, cosines, ratios     in units of 1/T  (T = 1000)                *)
(* together with the three non-finite values NaN, Inf and NegInf, which    *)
(* follow the IEEE rules the code is exposed to (0/0, x/0, Math.max/min    *)
(* and Math.acos of NaN).  Signed zero is not distinguished.               *)
(***************************************************************************)
EXTENDS Integers, Sequences, FiniteSets, TLC

(***************************************************************************)
(* Number representation                                                   *)
(***************************************************************************)
L == 10 * 10
A == 1000 * 100
T == 10 * 100

NaN == 2147483647 - 0
Inf == 2 * 1000000000
NegInf == 0 - Inf

\* Math.PI in angle units (3.14159 rad)
PI == 314159

IsNaN(x) == x = NaN
IsFin(x) == NegInf < x /\ x < Inf

Abs(x) == IF x < 0 THEN 0 - x ELSE x
Sign(x) == IF x < 0 THEN 0 - 1 ELSE IF x > 0 THEN 1 ELSE 0

\* integer quotient rounded toward zero, as the nearest fixed-point image of
\* a floating-point quotient that keeps its sign
TruncDiv(a, b) ==
    IF a >= 0
    THEN (IF b > 0 THEN a \div b ELSE 0 - (a \div (0 - b)))
    ELSE (IF b > 0 THEN 0 - ((0 - a) \div b) ELSE (0 - a) \div (0 - b))

\* a + b
FAdd(a, b) ==
    IF IsFin(a) /\ IsFin(b) THEN a + b
    ELSE IF IsNaN(a) \/ IsNaN(b) THEN NaN
    ELSE IF IsFin(a) THEN b
    ELSE IF IsFin(b) THEN a
    ELSE IF a = b THEN a ELSE NaN

\* -a
FNeg(a) == IF IsNaN(a) THEN NaN ELSE 0 - a

\* a - b
FSub(a, b) == FAdd(a, FNeg(b))

\* a * b, where b is a factor in units of 1/s; the result has a's unit
FMul(a, b, s) ==
    IF IsFin(a) /\ IsFin(b) THEN TruncDiv(a * b, s)
    ELSE IF IsNaN(a) \/ IsNaN(b) THEN NaN
    ELSE IF a = 0 \/ b = 0 THEN NaN
    ELSE IF Sign(a) * Sign(b) > 0 THEN Inf ELSE NegInf

\* a / b with the result in units of 1/s (a and b in the same unit), or
\* a divided by a factor b in units of 1/s (the result has a's unit)
FDiv(a, b, s) ==
    IF IsFin(a) /\ IsFin(b) /\ b # 0 THEN TruncDiv(a * s, b)
    ELSE IF IsNaN(a) \/ IsNaN(b) THEN NaN
    ELSE IF ~IsFin(a) /\ ~IsFin(b) THEN NaN
    ELSE IF ~IsFin(a) THEN (IF Sign(a) * (IF b < 0 THEN 0 - 1 ELSE 1) > 0 THEN Inf ELSE NegInf)
    ELSE IF ~IsFin(b) THEN 0
    ELSE IF b = 0 THEN (IF a = 0 THEN NaN ELSE IF a > 0 THEN Inf ELSE NegInf)
    ELSE TruncDiv(a * s, b)

\* Math.max(a, b): NaN if either argument is NaN
FMax(a, b) == IF IsNaN(a) \/ IsNaN(b) THEN NaN ELSE IF a >= b THEN a ELSE b

\* Math.min(a, b): NaN if either argument is NaN
FMin(a, b) == IF IsNaN(a) \/ IsNaN(b) THEN NaN ELSE IF a <= b THEN a ELSE b

\* a <= b as JavaScript evaluates it: false when either side is NaN
FLeq(a, b) == ~IsNaN(a) /\ ~IsNaN(b) /\ a <= b

\* lo <= x <= hi
InRange(x, lo, hi) == FLeq(lo, x) /\ FLeq(x, hi)

RECURSIVE ISqrtIter(_, _, _)
ISqrtIter(n, lo, hi) ==
    IF lo >= hi THEN lo
    ELSE LET mid == (lo + hi + 1) \div 2
         IN IF mid * mid <= n THEN ISqrtIter(n, mid, hi) ELSE ISqrtIter(n, lo, mid - 1)

\* floor of the square root of a natural number
ISqrt(n) == ISqrtIter(n, 0, 46340)

\* Math.sqrt(x*x + y*y + z*z) of three lengths
FLen3(x, y, z) ==
    IF IsNaN(x) \/ IsNaN(y) \/ IsNaN(z) THEN NaN
    ELSE IF ~IsFin(x) \/ ~IsFin(y) \/ ~IsFin(z) THEN Inf
    ELSE ISqrt(x * x + y * y + z * z)

\* sine of an angle in [0, PI], in units of 1/T (Bhaskara's rational
\* approximation 16p / (5 PI^2 - 4p), p = x (PI - x), on milliradians)
SinHalfTurn(x) ==
    LET xm == x \div 100
        pm == PI \div 100
        p == xm * (pm - xm)
    IN (p * 160) \div ((5 * pm * pm - 4 * p) \div 100)

\* Math.sin
FSin(x) ==
    IF ~IsFin(x) THEN NaN
    ELSE LET r == x % (2 * PI)
         IN IF r <= PI THEN SinHalfTurn(r) ELSE 0 - SinHalfTurn(r - PI)

\* Math.cos
FCos(x) == IF ~IsFin(x) THEN NaN ELSE FSin(x + PI \div 2)

RECURSIVE AcosIter(_, _, _)
AcosIter(c, lo, hi) ==
    IF hi - lo <= 100 THEN (IF Abs(FCos(lo) - c) <= Abs(FCos(hi) - c) THEN lo ELSE hi)
    ELSE LET mid == ((lo + hi) \div 200) * 100
         IN IF FCos(mid) >= c THEN AcosIter(c, mid, hi) ELSE AcosIter(c, lo, mid)

\* Math.acos of a ratio in units of 1/T: the angle in [0, PI] whose cosine
\* is nearest; NaN outside [-1, 1]
FAcos(c) ==
    IF ~IsFin(c) \/ c > T \/ c < 0 - T THEN NaN
    ELSE IF c = T THEN 0
    ELSE IF c = 0 - T THEN PI
    ELSE AcosIter(c, 0, PI)

\* Math.atan2(y, x) for lengths y and x
FAtan2(y, x) ==
    IF IsNaN(y) \/ IsNaN(x) THEN NaN
    ELSE IF ~IsFin(y) \/ ~IsFin(x) THEN NaN
    ELSE IF y = 0 /\ x = 0 THEN 0
    ELSE LET r == ISqrt(x * x + y * y)
             a == FAcos(FMin(T, FMax(0 - T, FDiv(x, IF r = 0 THEN 1 ELSE r, T))))
         IN IF y >= 0 THEN a ELSE 0 - a

(***************************************************************************)
(* Vectors and 4x4 matrices                                                *)
(***************************************************************************)
Vec3Add(a, b) == <<FAdd(a[1], b[1]), FAdd(a[2], b[2]), FAdd(a[3], b[3])>>
Vec3Sub(a, b) == <<FSub(a[1], b[1]), FSub(a[2], b[2]), FSub(a[3], b[3])>>

\* new Float32Array(16)
ZeroMatrix == [i \in 1..16 |-> 0]

(***************************************************************************)
(* State                                                                   *)
(***************************************************************************)
VARIABLES
    canvas,      \* the canvas element: clientWidth/clientHeight, width/height
    camera,      \* the Camera object (Camera.js 4-162)
    controls,    \* the OrbitControls object bound to the camera (part_005 157-552)
    obs,         \* observation of the run: last operation, operation count,
                 \* number of updateViewMatrix computations, last returned matrix
    gpu,         \* the WebGPU implementation the page runs on
    renderer,    \* the Renderer object (Renderer.js 3-542)
    materials,   \* the material objects, by material id
    drawables,   \* the scene's entities that carry a MeshRenderer, in scene order
    frame,       \* what the Renderer call that just returned did (draws recorded,
                 \* submissions, log); NoFrame once anything else has happened
    engine,      \* the Engine object's loop fields: _running, _animationFrame
    loop,        \* the browser's animation-frame queue and the invocations of
                 \* the engine's loop function that are suspended at their await
    game         \* the game running on the engine: the GameManager with its
                 \* states, or the entities of the sample game's level

camVars == <<canvas, camera, controls, obs>>
renderVars == <<gpu, renderer, materials, drawables, frame>>
engineVars == <<engine, loop, game>>
vars == <<canvas, camera, controls, obs, gpu, renderer, materials, drawables, frame, engine, loop,
          game>>

(***************************************************************************)
(* Bounds and input sets                                                   *)
(***************************************************************************)
\* number of operations applied to the camera and its controller in one run
MaxOps == 3

\* frame time passed to update(), in milliseconds
FrameMs == 16

\* pointer movements of a rotate drag, in pixels <<deltaX, deltaY>>
RotateDeltas == {<<50, 0>>, <<0, 400>>, <<0, 0 - 400>>}
\* pointer movements of a pan drag, in pixels
PanDeltas == {<<30, 0 - 20>>}
\* arguments of OrbitControls.setTarget
TargetInputs == {<<0, 0, 0>>, <<0, 100, 0>>}
\* arguments of OrbitControls.setPosition and Camera.setPosition
PositionInputs == {<<0, 0, 500>>, <<0, 0, 15000>>, <<0, 0, 0>>, <<300, 400, 0>>}

(***************************************************************************)
(* Camera (src/src/render/Camera.js)                                       *)
(***************************************************************************)
DefaultFov == 60
DefaultNear == 10
DefaultFar == 100000
DefaultSize == 1000

\* constructor(engine, options)
NewCamera(position, type, aspectAuto) ==
    [ position |-> position,
      target |-> <<0, 0, 0>>,
      up |-> <<0, L, 0>>,
      type |-> type,
      fov |-> DefaultFov,
      aspectAuto |-> aspectAuto,
      aspectRatio |-> L,
      nearPlane |-> DefaultNear,
      farPlane |-> DefaultFar,
      size |-> DefaultSize,
      viewMatrix |-> ZeroMatrix,
      projectionMatrix |-> ZeroMatrix,
      viewProjectionMatrix |-> ZeroMatrix,
      viewDirty |-> TRUE,
      projectionDirty |-> TRUE,
      hasControls |-> FALSE ]

\* setPosition(x, y, z)
CameraSetPosition(cam, p) == [cam EXCEPT !.position = p, !.viewDirty = TRUE]

\* setTarget(x, y, z) with the dirty flag left as it was
CameraSetTargetKeepingFlag(cam, t) == [cam EXCEPT !.target = t]

\* setTarget(x, y, z)
CameraSetTarget(cam, t) == [cam EXCEPT !.target = t, !.viewDirty = TRUE]

\* lookAt(x, y, z)
CameraLookAt(cam, t) == [cam EXCEPT !.target = t, !.viewDirty = TRUE]

\* updateViewMatrix(): the matrix computation is a TODO, only the flag changes
UpdateViewMatrix(cam) == [cam EXCEPT !.viewDirty = FALSE]

\* updateProjectionMatrix(): both branches are TODOs, only the flag changes
UpdateProjectionMatrix(cam) == [cam EXCEPT !.projectionDirty = FALSE]

\* getViewMatrix(): the camera after the call
GetViewMatrix(cam) == IF cam.viewDirty THEN UpdateViewMatrix(cam) ELSE cam

\* getProjectionMatrix(): the camera after the call
GetProjectionMatrix(cam) == IF cam.projectionDirty THEN UpdateProjectionMatrix(cam) ELSE cam

\* getViewProjectionMatrix(): the camera after the call
GetViewProjectionMatrix(cam) == GetProjectionMatrix(GetViewMatrix(cam))

\* getViewProjectionMatrix(): the value returned, the cached field
ViewProjectionReturned(cam) == cam.viewProjectionMatrix

\* resize() marking the projection dirty whatever the aspect ratio setting
CameraResizeAlwaysDirty(cam) == [cam EXCEPT !.projectionDirty = TRUE]

\* Camera.resize()
CameraResize(cam) == IF cam.aspectAuto THEN [cam EXCEPT !.projectionDirty = TRUE] ELSE cam

\* Camera.update(deltaTime) on a camera without controls
CameraUpdated(cam) == [cam EXCEPT !.viewDirty = TRUE]

\* the caches are public Float32Array fields, and getViewMatrix() and
\* getProjectionMatrix() hand them out by reference: a caller's
\* viewMatrix.set(m) / projectionMatrix.set(m)
CameraStoreMatrix(cam, which, m) ==
    IF which = "view" THEN [cam EXCEPT !.viewMatrix = m] ELSE [cam EXCEPT !.projectionMatrix = m]

(***************************************************************************)
(* OrbitControls (src/unnamed/part_005)                                    *)
(***************************************************************************)
DefaultMinDistance == 100
DefaultMaxDistance == 10000
DefaultMinPolarAngle == 10000
DefaultMaxPolarAngle == 304159
DefaultRotateSpeed == 100
DefaultZoomSpeed == 1
DefaultPanSpeed == 100
DefaultDampingFactor == 5
DefaultAutoRotateSpeed == 200
\* the base 0.95 of the zoom step, in units of 1/T
ZoomBase == 950

\* updateSphericalFromCamera()
UpdateSphericalFromCamera(ctl, cam) ==
    LET offset == Vec3Sub(cam.position, ctl.target)
        radius == FLen3(offset[1], offset[2], offset[3])
        phi == FAcos(FMin(FMax(FDiv(offset[2], radius, T), 0 - T), T))
        theta == FAtan2(offset[1], offset[3])
    IN [ctl EXCEPT !.spherical = [radius |-> radius, phi |-> phi, theta |-> theta]]

\* updateCameraFromSpherical()
UpdateCameraFromSpherical(ctl, cam) ==
    LET radius == ctl.spherical.radius
        phi == ctl.spherical.phi
        theta == ctl.spherical.theta
        sinPhiRadius == FMul(radius, FSin(phi), T)
        position == << FMul(sinPhiRadius, FSin(theta), T),
                       FMul(radius, FCos(phi), T),
                       FMul(sinPhiRadius, FCos(theta), T) >>
        moved == Vec3Add(position, Vec3Add(ctl.target, ctl.panOffset))
    IN CameraLookAt(CameraSetPosition(cam, moved), ctl.target)

\* constructor(camera, options): the state before updateSphericalFromCamera()
NewControls(target, enableDamping, autoRotate, minAzimuthAngle, maxAzimuthAngle) ==
    [ target |-> target,
      minDistance |-> DefaultMinDistance,
      maxDistance |-> DefaultMaxDistance,
      minPolarAngle |-> DefaultMinPolarAngle,
      maxPolarAngle |-> DefaultMaxPolarAngle,
      minAzimuthAngle |-> minAzimuthAngle,
      maxAzimuthAngle |-> maxAzimuthAngle,
      rotateSpeed |-> DefaultRotateSpeed,
      zoomSpeed |-> DefaultZoomSpeed,
      panSpeed |-> DefaultPanSpeed,
      enableDamping |-> enableDamping,
      dampingFactor |-> DefaultDampingFactor,
      spherical |-> [radius |-> 0, phi |-> 0, theta |-> 0],
      sphericalDelta |-> [radius |-> 0, phi |-> 0, theta |-> 0],
      scale |-> T,
      panOffset |-> <<0, 0, 0>>,
      zoomChanged |-> FALSE,
      autoRotate |-> autoRotate,
      autoRotateSpeed |-> DefaultAutoRotateSpeed ]

\* handleRotate(deltaX, deltaY)
HandleRotate(ctl, cv, deltaX, deltaY) ==
    LET dTheta == FMul(FDiv(FMul(2 * PI, deltaX, 1), cv.clientWidth, 1), ctl.rotateSpeed, L)
        dPhi == FMul(FDiv(FMul(2 * PI, deltaY, 1), cv.clientHeight, 1), ctl.rotateSpeed, L)
    IN [ctl EXCEPT !.sphericalDelta.theta = FSub(@, dTheta),
                   !.sphericalDelta.phi = FSub(@, dPhi)]

\* Math.pow(0.95, this.zoomSpeed), in units of 1/T
RECURSIVE ZoomStep(_)
ZoomStep(zoomSpeed) ==
    IF zoomSpeed <= 0 THEN T ELSE FMul(ZoomStep(zoomSpeed - 1), ZoomBase, T)

\* handleZoom(delta)
HandleZoom(ctl, delta) ==
    [ctl EXCEPT !.scale = IF delta > 0 THEN FDiv(@, ZoomStep(ctl.zoomSpeed), T)
                          ELSE IF delta < 0 THEN FMul(@, ZoomStep(ctl.zoomSpeed), T)
                          ELSE @,
                !.zoomChanged = TRUE]

\* handlePan(deltaX, deltaY)
HandlePan(ctl, cam, cv, deltaX0, deltaY0) ==
    LET distance == ctl.spherical.radius
        deltaX == FDiv(FMul(FMul(distance, 2, 1), deltaX0, 1), cv.clientWidth, 1)
        deltaY == FDiv(FMul(FMul(distance, 2, 1), deltaY0, 1), cv.clientHeight, 1)
        fwd == Vec3Sub(ctl.target, cam.position)
        len == FLen3(fwd[1], fwd[2], fwd[3])
        forward == <<FDiv(fwd[1], len, T), FDiv(fwd[2], len, T), FDiv(fwd[3], len, T)>>
        up == <<0, T, 0>>
        right == << FSub(FMul(forward[2], up[3], T), FMul(forward[3], up[2], T)),
                    FSub(FMul(forward[3], up[1], T), FMul(forward[1], up[3], T)),
                    FSub(FMul(forward[1], up[2], T), FMul(forward[2], up[1], T)) >>
        step(i) == FSub(FMul(FMul(deltaX, right[i], T), ctl.panSpeed, L),
                        FMul(FMul(deltaY, forward[i], T), ctl.panSpeed, L))
    IN [ctl EXCEPT !.panOffset = <<FAdd(@[1], step(1)), FAdd(@[2], step(2)), FAdd(@[3], step(3))>>]

\* 2 * Math.PI / 60 / 60 * this.autoRotateSpeed * deltaTime, deltaTime in ms
AutoRotateStep(ctl, deltaMs) ==
    TruncDiv(TruncDiv(2 * PI * ctl.autoRotateSpeed, L) * deltaMs, 3600 * 1000)

\* update() without the damping phase: the pending deltas are left as applied
UpdateSphericalKeepingDeltas(ctl, deltaMs) ==
    LET dTheta == IF ctl.autoRotate
                  THEN FSub(ctl.sphericalDelta.theta, AutoRotateStep(ctl, deltaMs))
                  ELSE ctl.sphericalDelta.theta
        theta == FMax(ctl.minAzimuthAngle,
                      FMin(ctl.maxAzimuthAngle, FAdd(ctl.spherical.theta, dTheta)))
        phi == FMax(ctl.minPolarAngle,
                    FMin(ctl.maxPolarAngle, FAdd(ctl.spherical.phi, ctl.sphericalDelta.phi)))
        radius == IF ctl.zoomChanged
                  THEN FMax(ctl.minDistance,
                            FMin(ctl.maxDistance, FDiv(ctl.spherical.radius, ctl.scale, T)))
                  ELSE ctl.spherical.radius
    IN [ctl EXCEPT !.spherical = [radius |-> radius, phi |-> phi, theta |-> theta],
                   !.sphericalDelta.theta = dTheta,
                   !.scale = IF ctl.zoomChanged THEN T ELSE @,
                   !.zoomChanged = FALSE]

\* update() without the restriction of phi to the polar limits
UpdateSphericalUnrestrictedPhi(ctl, deltaMs) ==
    LET dTheta == IF ctl.autoRotate
                  THEN FSub(ctl.sphericalDelta.theta, AutoRotateStep(ctl, deltaMs))
                  ELSE ctl.sphericalDelta.theta
        dPhi == ctl.sphericalDelta.phi
        theta == FMax(ctl.minAzimuthAngle,
                      FMin(ctl.maxAzimuthAngle, FAdd(ctl.spherical.theta, dTheta)))
        keep == L - ctl.dampingFactor
        radius == IF ctl.zoomChanged
                  THEN FMax(ctl.minDistance,
                            FMin(ctl.maxDistance, FDiv(ctl.spherical.radius, ctl.scale, T)))
                  ELSE ctl.spherical.radius
    IN [ctl EXCEPT !.spherical = [radius |-> radius, theta |-> theta,
                                  phi |-> FAdd(ctl.spherical.phi, dPhi)],
                   !.sphericalDelta.theta = IF ctl.enableDamping THEN FMul(dTheta, keep, L) ELSE 0,
                   !.sphericalDelta.phi = IF ctl.enableDamping THEN FMul(dPhi, keep, L) ELSE 0,
                   !.scale = IF ctl.zoomChanged THEN T ELSE @,
                   !.zoomChanged = FALSE]

\* update(deltaTime), lines 481-514: everything before updateCameraFromSpherical()
UpdateSpherical(ctl, deltaMs) ==
    LET dTheta == IF ctl.autoRotate
                  THEN FSub(ctl.sphericalDelta.theta, AutoRotateStep(ctl, deltaMs))
                  ELSE ctl.sphericalDelta.theta
        dPhi == ctl.sphericalDelta.phi
        theta == FMax(ctl.minAzimuthAngle,
                      FMin(ctl.maxAzimuthAngle, FAdd(ctl.spherical.theta, dTheta)))
        phi == FMax(ctl.minPolarAngle,
                    FMin(ctl.maxPolarAngle, FAdd(ctl.spherical.phi, dPhi)))
        keep == L - ctl.dampingFactor
        radius == IF ctl.zoomChanged
                  THEN FMax(ctl.minDistance,
                            FMin(ctl.maxDistance, FDiv(ctl.spherical.radius, ctl.scale, T)))
                  ELSE ctl.spherical.radius
    IN [ctl EXCEPT !.spherical = [radius |-> radius, phi |-> phi, theta |-> theta],
                   !.sphericalDelta.theta = IF ctl.enableDamping THEN FMul(dTheta, keep, L) ELSE 0,
                   !.sphericalDelta.phi = IF ctl.enableDamping THEN FMul(dPhi, keep, L) ELSE 0,
                   !.scale = IF ctl.zoomChanged THEN T ELSE @,
                   !.zoomChanged = FALSE]

\* update(deltaTime), lines 519-528: the pan offset after the camera was moved
DecayPan(ctl) ==
    LET keep == L - ctl.dampingFactor
    IN [ctl EXCEPT !.panOffset = IF ctl.enableDamping
                                 THEN <<FMul(@[1], keep, L), FMul(@[2], keep, L), FMul(@[3], keep, L)>>
                                 ELSE <<0, 0, 0>>]

\* update(deltaTime): the controller after the call
ControlsUpdate(ctl, deltaMs) == DecayPan(UpdateSpherical(ctl, deltaMs))

\* update() moving the camera only after the pan offset has decayed
ControlsUpdateCameraAfterDecay(ctl, cam, deltaMs) ==
    UpdateCameraFromSpherical(ControlsUpdate(ctl, deltaMs), cam)

\* update(deltaTime): the camera after the call
ControlsUpdateCamera(ctl, cam, deltaMs) == UpdateCameraFromSpherical(UpdateSpherical(ctl, deltaMs), cam)

\* setTarget(targetPosition)
ControlsSetTarget(ctl, cam, t) == UpdateSphericalFromCamera([ctl EXCEPT !.target = t], cam)

(***************************************************************************)
(* StandardMaterial (src/unnamed/part_000) and MaterialLibrary             *)
(* (src/unnamed/part_001).  A GPU object is modelled by whether the field  *)
(* holds one (TRUE) or null (FALSE).  failAt names the device call that    *)
(* throws during construction, "none" when all succeed.                    *)
(***************************************************************************)
FailPoints == {"none", "createShaderModule", "createRenderPipeline", "createBindGroup"}

\* createModelBindGroup()
CreateModelBindGroup(m, failAt) ==
    IF ~m.pipeline \/ ~m.modelUniformBuffer THEN m
    ELSE IF failAt = "createBindGroup" THEN m
    ELSE [m EXCEPT !.modelBindGroup = TRUE]

\* createPipeline()
CreatePipeline(m, failAt) ==
    IF failAt = "createRenderPipeline" THEN m
    ELSE CreateModelBindGroup([m EXCEPT !.pipeline = TRUE], failAt)

\* loadShader(): initialized is set only when no call threw
LoadShader(m, failAt) ==
    IF failAt = "createShaderModule" THEN m
    ELSE LET made == CreatePipeline([m EXCEPT !.shaderModule = TRUE], failAt)
         IN IF failAt = "none" THEN [made EXCEPT !.initialized = TRUE] ELSE made

\* constructor(engine, options) without a texture option
NewStandardMaterial(failAt) ==
    LoadShader([ type |-> "standard",
                 texture |-> FALSE,
                 bindGroup |-> FALSE,
                 modelBindGroup |-> FALSE,
                 pipeline |-> FALSE,
                 shaderModule |-> FALSE,
                 modelUniformBuffer |-> TRUE,
                 initialized |-> FALSE ], failAt)

\* MaterialLibrary.createBasic(options): a plain object with none of the GPU
\* fields (they read as undefined) and no readiness flag
NewBasicMaterial ==
    [ type |-> "basic",
      texture |-> FALSE,
      bindGroup |-> FALSE,
      modelBindGroup |-> FALSE,
      pipeline |-> FALSE,
      shaderModule |-> FALSE,
      modelUniformBuffer |-> FALSE,
      initialized |-> FALSE ]

\* setTexture(texture)
SetTexture(m) ==
    LET held == [m EXCEPT !.texture = TRUE]
    IN IF ~held.initialized THEN held
       ELSE IF held.pipeline /\ held.texture THEN [held EXCEPT !.bindGroup = TRUE]
       ELSE held

\* StandardMaterial.dispose()
MaterialDisposed(m) ==
    [m EXCEPT !.texture = FALSE, !.bindGroup = FALSE, !.modelUniformBuffer = FALSE,
              !.modelBindGroup = FALSE, !.pipeline = FALSE]

(***************************************************************************)
(* Renderer (src/src/render/Renderer.js)                                   *)
(***************************************************************************)
\* window.devicePixelRatio
DevicePixelRatio == 1

\* updateCameraUniforms(camera), lines 302-310: the perspective matrix
UniformProjection(f, aspect, near, far) ==
    << FDiv(f, aspect, T), 0, 0, 0,
       0, f, 0, 0,
       0, 0, FDiv(far, FSub(near, far), T), 0 - T,
       0, 0, FDiv(FMul(near, far, L), FSub(near, far), T), 0 >>

\* lines 316-326: the normalised direction from the target to the camera
UniformZAxis(zRaw, zLen) ==
    <<FDiv(zRaw[1], zLen, T), FDiv(zRaw[2], zLen, T), FDiv(zRaw[3], zLen, T)>>

\* lines 329-346: cross([0, 1, 0], zAxis), normalised when its length is positive
UniformXAxis(xRaw, xLen) ==
    IF ~IsNaN(xLen) /\ xLen > 0
    THEN <<FDiv(xRaw[1], xLen, T), FDiv(xRaw[2], xLen, T), FDiv(xRaw[3], xLen, T)>>
    ELSE <<T, 0, 0>>

\* lines 349-353: cross(zAxis, xAxis)
UniformYAxis(zAxis, xAxis) ==
    << FSub(FMul(zAxis[2], xAxis[3], T), FMul(zAxis[3], xAxis[2], T)),
       FSub(FMul(zAxis[3], xAxis[1], T), FMul(zAxis[1], xAxis[3], T)),
       FSub(FMul(zAxis[1], xAxis[2], T), FMul(zAxis[2], xAxis[1], T)) >>

Dot3(a, b) == FAdd(FAdd(FMul(a[1], b[1], T), FMul(a[2], b[2], T)), FMul(a[3], b[3], T))

\* lines 356-365: the view matrix from the three axes and the position
UniformViewFromAxes(xAxis, yAxis, zAxis, posT) ==
    << xAxis[1], yAxis[1], zAxis[1], 0,
       xAxis[2], yAxis[2], zAxis[2], 0,
       xAxis[3], yAxis[3], zAxis[3], 0,
       FNeg(Dot3(xAxis, posT)), FNeg(Dot3(yAxis, posT)), FNeg(Dot3(zAxis, posT)), T >>

UniformViewFromZ(zAxis, posT) ==
    UniformViewFromAxes(
        UniformXAxis(<<zAxis[3], 0, FNeg(zAxis[1])>>, FLen3(zAxis[3], 0, FNeg(zAxis[1]))),
        UniformYAxis(zAxis,
            UniformXAxis(<<zAxis[3], 0, FNeg(zAxis[1])>>, FLen3(zAxis[3], 0, FNeg(zAxis[1])))),
        zAxis, posT)

\* lines 312-365: the simplified look-at matrix, up taken as [0, 1, 0]
UniformView(pos, target) ==
    UniformViewFromZ(
        UniformZAxis(Vec3Sub(pos, target),
                     FLen3(pos[1] - target[1], pos[2] - target[2], pos[3] - target[3])),
        <<FMul(pos[1], T, L), FMul(pos[2], T, L), FMul(pos[3], T, L)>>)

\* lines 367-378: projMatrix * viewMatrix, column-major
MultiplyMatrices(p, v) ==
    [n \in 1..16 |->
        LET i == (n - 1) % 4
            j == (n - 1) \div 4
        IN FAdd(FAdd(FMul(p[1 + i], v[1 + 4 * j], T), FMul(p[5 + i], v[2 + 4 * j], T)),
                FAdd(FMul(p[9 + i], v[3 + 4 * j], T), FMul(p[13 + i], v[4 + 4 * j], T)))]

\* line 302: 1.0 / Math.tan(fov / 2)
UniformFocal(halfFov) == FDiv(FCos(halfFov), FSin(halfFov), T)

\* updateCameraUniforms(camera): the 16 floats written to cameraUniformBuffer,
\* in units of 1/T, column-major as the code lays them out.  The aspect is the
\* canvas's width over its height; camera.up, camera.type and
\* camera.aspectRatio are not read.
CameraUniforms(cam, cv) ==
    MultiplyMatrices(
        UniformProjection(UniformFocal(TruncDiv(TruncDiv(cam.fov * PI, 180), 2)),
                          FDiv(cv.width, cv.height, T), cam.nearPlane, cam.farPlane),
        UniformView(cam.position, cam.target))

\* resize(): the canvas and the renderer after the call
ResizeNeeded(cv) ==
    \/ cv.width # cv.clientWidth * DevicePixelRatio
    \/ cv.height # cv.clientHeight * DevicePixelRatio

ResizedCanvas(cv) ==
    IF ResizeNeeded(cv)
    THEN [cv EXCEPT !.width = cv.clientWidth * DevicePixelRatio,
                    !.height = cv.clientHeight * DevicePixelRatio]
    ELSE cv

\* resize() destroys the depth texture it holds, if any, and calls
\* createDepthTexture(), which stores a new texture and its view
ResizedRenderer(r, cv) ==
    IF ResizeNeeded(cv)
    THEN [r EXCEPT !.depthTexture = TRUE, !.depthTextureView = TRUE]
    ELSE r

\* Renderer.dispose()
RendererDisposed(r) ==
    [(IF r.depthTexture
      THEN [r EXCEPT !.depthTexture = FALSE, !.depthTextureView = FALSE]
      ELSE r) EXCEPT !.disposeCalled = TRUE]

\* the loop with an exception in place of the `continue` for an entity without
\* mesh or material
DrawOutcomeThrowingOnMissing(d, mats, g) ==
    IF ~d.mesh \/ d.material = 0 THEN "throw"
    ELSE LET m == mats[d.material]
         IN IF m.type \in {"cubemap", "standard"}
            THEN IF m.modelUniformBuffer /\ ~d.transform THEN "throw"
                 ELSE IF ~m.pipeline THEN "noPipeline"
                 ELSE IF (~m.modelBindGroup \/ ~m.bindGroup) /\ g.nullBindGroupThrows THEN "throw"
                 ELSE "draw"
            ELSE IF ~d.transform THEN "throw"
                 ELSE IF g.nullBindGroupThrows THEN "throw"
                 ELSE "draw"

\* render(): what the loop body (lines 478-520) does with one entity:
\*   "skip"   continue at line 483 (no mesh or no material)
\*   "noPipeline"  logged and continue at line 499
\*   "throw"  an exception leaves the loop
\*   "draw"   drawIndexed is recorded
DrawOutcome(d, mats, g) ==
    IF ~d.mesh \/ d.material = 0 THEN "skip"
    ELSE LET m == mats[d.material]
         IN IF m.type \in {"cubemap", "standard"}
            THEN IF m.modelUniformBuffer /\ ~d.transform THEN "throw"
                 ELSE IF ~m.pipeline THEN "noPipeline"
                 ELSE IF (~m.modelBindGroup \/ ~m.bindGroup) /\ g.nullBindGroupThrows THEN "throw"
                 ELSE "draw"
            ELSE IF ~d.transform THEN "throw"
                 ELSE IF g.nullBindGroupThrows THEN "throw"
                 ELSE "draw"

\* the entities drawn by the loop, in order, up to the first exception
RECURSIVE DrawnFrom(_, _, _, _)
DrawnFrom(i, ds, mats, g) ==
    IF i > Len(ds) THEN <<>>
    ELSE LET o == DrawOutcome(ds[i], mats, g)
         IN IF o = "throw" THEN <<>>
            ELSE IF o = "draw" THEN <<i>> \o DrawnFrom(i + 1, ds, mats, g)
            ELSE DrawnFrom(i + 1, ds, mats, g)

\* whether the loop is left by an exception
LoopThrows(ds, mats, g) == \E i \in 1..Len(ds) : DrawOutcome(ds[i], mats, g) = "throw"

\* the entities the loop logs "material has no pipeline" for
RECURSIVE NoPipelineFrom(_, _, _, _)
NoPipelineFrom(i, ds, mats, g) ==
    IF i > Len(ds) THEN {}
    ELSE LET o == DrawOutcome(ds[i], mats, g)
         IN IF o = "throw" THEN {}
            ELSE (IF o = "noPipeline" THEN {i} ELSE {}) \cup NoPipelineFrom(i + 1, ds, mats, g)

NoFrame ==
    [ op |-> "none", surface |-> "ok", depthRecreated |-> FALSE, sceneUpdated |-> FALSE,
      passBegun |-> FALSE, passEnded |-> FALSE, submits |-> 0, draws |-> <<>>,
      noPipeline |-> {}, logs |-> {}, threw |-> FALSE, afterDispose |-> FALSE,
      reads |-> <<>> ]

\* what the draw calls of a submitted pass read at binding 1 when the command
\* buffer executes: for each entry of drawn, the entity whose model uniforms
\* were the last written (queue.writeBuffer) to the buffer that draw call has
\* bound, 0 if nothing was written to it.  A standard or cubemap material owns
\* one modelUniformBuffer for all entities that use it; a basic material is
\* drawn with the MeshRenderer's own buffer.
UniformsRead(drawn, ds, mats) ==
    [k \in 1..Len(drawn) |->
        LET i == drawn[k]
            m == mats[ds[i].material]
            writers == {j \in 1..Len(ds) :
                          /\ ds[j].mesh /\ ds[j].material = ds[i].material
                          /\ ds[j].transform /\ m.modelUniformBuffer}
        IN IF m.type \in {"cubemap", "standard"}
           THEN IF writers = {} THEN 0
                ELSE CHOOSE j \in writers : \A j2 \in writers : j2 <= j
           ELSE i]

\* the pass with the catch clause submitting what was recorded so far
PassRecordedSubmittingPartial(ds, mats, g) ==
    LET drawn == DrawnFrom(1, ds, mats, g)
        none == NoPipelineFrom(1, ds, mats, g)
        said == IF none = {} THEN {} ELSE {"material has no pipeline"}
    IN IF LoopThrows(ds, mats, g)
       THEN [NoFrame EXCEPT !.passBegun = TRUE, !.submits = 1, !.draws = drawn,
                            !.noPipeline = none, !.logs = said \cup {"Render pass error:"}]
       ELSE [NoFrame EXCEPT !.passBegun = TRUE, !.passEnded = TRUE, !.submits = 1,
                            !.draws = drawn, !.noPipeline = none,
                            !.logs = said \cup {"Command buffer finished"}]

\* render(scene, camera), lines 432-528: the pass from createCommandEncoder
\* to queue.submit, left through the catch clause if an entity throws
PassRecorded(ds, mats, g) ==
    LET drawn == DrawnFrom(1, ds, mats, g)
        none == NoPipelineFrom(1, ds, mats, g)
        said == IF none = {} THEN {} ELSE {"material has no pipeline"}
    IN IF LoopThrows(ds, mats, g)
       THEN [NoFrame EXCEPT !.passBegun = TRUE, !.draws = drawn, !.noPipeline = none,
                            !.logs = said \cup {"Render pass error:"}]
       ELSE [NoFrame EXCEPT !.passBegun = TRUE, !.passEnded = TRUE, !.submits = 1,
                            !.draws = drawn, !.noPipeline = none,
                            !.logs = said \cup {"Command buffer finished"},
                            !.reads = UniformsRead(drawn, ds, mats)]

\* the try block with a missing surface image taken for a usable one
RenderPassIgnoringSurface(r, ds, mats, g, surface) ==
    IF surface = "throws"
    THEN [NoFrame EXCEPT !.logs = {"Render pass error:"}]
    ELSE IF ~r.depthTextureView
    THEN [NoFrame EXCEPT !.logs = {"Depth texture view is invalid."}]
    ELSE PassRecorded(ds, mats, g)

\* render(scene, camera), lines 419-532: the try block, given what
\* context.getCurrentTexture() does ("ok", "none": a falsy value, "throws")
RenderPass(r, ds, mats, g, surface) ==
    IF surface = "none"
    THEN [NoFrame EXCEPT !.logs = {"No current texture available."}]
    ELSE IF surface = "throws"
    THEN [NoFrame EXCEPT !.logs = {"Render pass error:"}]
    ELSE IF ~r.depthTextureView
    THEN [NoFrame EXCEPT !.logs = {"Depth texture view is invalid."}]
    ELSE PassRecorded(ds, mats, g)

\* render(scene, camera): the renderer after the call
RenderedRenderer(r, cam, cv) ==
    [ResizedRenderer(r, cv) EXCEPT !.cameraUniformBuffer = CameraUniforms(cam, ResizedCanvas(cv))]

\* render(scene, camera): the record of the call
RenderedFrame(r, cv, ds, mats, g, surface) ==
    [RenderPass(ResizedRenderer(r, cv), ds, mats, g, surface)
        EXCEPT !.op = "render", !.surface = surface, !.sceneUpdated = TRUE,
               !.depthRecreated = ResizeNeeded(cv), !.afterDispose = r.disposeCalled]

\* the renderer after a successful initialize()
InitializedRenderer ==
    [ depthTexture |-> TRUE, depthTextureView |-> TRUE, basicPipeline |-> TRUE,
      cameraUniformBuffer |-> ZeroMatrix, disposeCalled |-> FALSE ]

\* an empty scene on an initialized renderer
RenderIdle ==
    /\ gpu = [nullBindGroupThrows |-> FALSE]
    /\ renderer = InitializedRenderer
    /\ materials = <<>>
    /\ drawables = <<>>
    /\ frame = NoFrame

(***************************************************************************)
(* Engine main loop (src/src/core/Scene.js, class Engine, lines 100-336).  *)
(* An animation-frame request is a positive id; _animationFrame = 0 stands *)
(* for null.                                                               *)
(***************************************************************************)
\* requestAnimationFrame(loop): the queue after the call; the id returned is
\* lp.nextId
RequestAnimationFrame(lp) ==
    [lp EXCEPT !.pending = @ \cup {lp.nextId}, !.nextId = @ + 1, !.requests = @ + 1]

\* cancelAnimationFrame(id): cancels a request that has not fired yet
CancelAnimationFrame(lp, id) == [lp EXCEPT !.pending = @ \ {id}]

\* stop(): the engine after the call
EngineStopped(e) == [e EXCEPT !.animationFrame = 0, !.running = FALSE]

\* stop(): the queue after the call
QueueAfterStop(e, lp) ==
    IF e.animationFrame # 0 THEN CancelAnimationFrame(lp, e.animationFrame) ELSE lp

\* the engine after a successful initialize(), before start()
NewEngine == [running |-> FALSE, animationFrame |-> 0]

NewLoop == [pending |-> {}, nextId |-> 1, awaiting |-> 0, callbackCalls |-> 0, requests |-> 0]

\* Engine.game before Engine.initialize() creates the GameManager
NoGame == [manager |-> FALSE]

EngineIdle ==
    /\ engine = NewEngine
    /\ loop = NewLoop
    /\ game = NoGame

(***************************************************************************)
(* Observation                                                             *)
(***************************************************************************)
Note(op) == [obs EXCEPT !.lastOp = op, !.ops = @ + 1]

(***************************************************************************)
(* Initial state: a camera created by Engine.createCamera with orbit       *)
(* controls created by Camera.createOrbitControls                          *)
(***************************************************************************)
\* history: the zoom inputs and updates of a zoom sequence, each with the radius
\* it left (SpecZoom); the state change that scheduleStateChange() asked for
\* and no processStateChange() has taken yet (SpecManager)
InitObs ==
    [lastOp |-> "new", ops |-> 0, viewComputes |-> 0, returned |-> ZeroMatrix, history |-> <<>>]

InitCanvas == [clientWidth |-> 800, clientHeight |-> 600, width |-> 800, height |-> 600]

InitOrbit ==
    /\ canvas = InitCanvas
    /\ \E damping \in BOOLEAN, auto \in BOOLEAN, az \in {<<NegInf, Inf>>, <<0 - 100000, 100000>>} :
         LET cam == [NewCamera(<<0, 0, 500>>, "perspective", TRUE) EXCEPT !.hasControls = TRUE]
         IN /\ camera = cam
            /\ controls = UpdateSphericalFromCamera(
                              NewControls(<<0, 0, 0>>, damping, auto, az[1], az[2]), cam)
    /\ obs = InitObs
    /\ RenderIdle
    /\ EngineIdle

(***************************************************************************)
(* Orbit controller operations                                             *)
(***************************************************************************)
\* a rotate drag delivered by onMouseMove / onTouchMove
Rotate ==
    /\ obs.ops < MaxOps
    /\ \E d \in RotateDeltas : controls' = HandleRotate(controls, canvas, d[1], d[2])
    /\ obs' = Note("rotate")
    /\ UNCHANGED <<engineVars, canvas, camera, renderVars>>

\* a wheel notch, pinch or dolly drag delivered to handleZoom
Zoom ==
    /\ obs.ops < MaxOps
    /\ \E delta \in {0 - 1, 1} : controls' = HandleZoom(controls, delta)
    /\ obs' = Note("zoom")
    /\ UNCHANGED <<engineVars, canvas, camera, renderVars>>

\* a pan drag delivered by onMouseMove
Pan ==
    /\ obs.ops < MaxOps
    /\ \E d \in PanDeltas : controls' = HandlePan(controls, camera, canvas, d[1], d[2])
    /\ obs' = Note("pan")
    /\ UNCHANGED <<engineVars, canvas, camera, renderVars>>

\* Camera.update(deltaTime) with controls attached: controls.update(deltaTime),
\* then viewDirty = true
OrbitUpdate ==
    /\ obs.ops < MaxOps
    /\ camera.hasControls
    /\ controls' = ControlsUpdate(controls, FrameMs)
    /\ camera' = [ControlsUpdateCamera(controls, camera, FrameMs) EXCEPT !.viewDirty = TRUE]
    /\ obs' = Note("update")
    /\ UNCHANGED <<engineVars, canvas, renderVars>>

\* OrbitControls.setTarget(targetPosition)
OrbitSetTarget ==
    /\ obs.ops < MaxOps
    /\ \E t \in TargetInputs : controls' = ControlsSetTarget(controls, camera, t)
    /\ obs' = Note("setTarget")
    /\ UNCHANGED <<engineVars, canvas, camera, renderVars>>

\* OrbitControls.setPosition(position)
OrbitSetPosition ==
    /\ obs.ops < MaxOps
    /\ \E p \in PositionInputs :
         /\ camera' = CameraSetPosition(camera, p)
         /\ controls' = UpdateSphericalFromCamera(controls, camera')
    /\ obs' = Note("setPosition")
    /\ UNCHANGED <<engineVars, canvas, renderVars>>

NextOrbit == Rotate \/ Zoom \/ Pan \/ OrbitUpdate \/ OrbitSetTarget \/ OrbitSetPosition

SpecOrbit == InitOrbit /\ [][NextOrbit]_vars

(***************************************************************************)
(* The orbit controller on a canvas laid out at any client size, including *)
(* a collapsed one (clientWidth or clientHeight 0, e.g. a hidden canvas)   *)
(***************************************************************************)
\* canvas client sizes at which drags arrive, <<clientWidth, clientHeight>>
ViewportSizes == {<<800, 600>>, <<0, 600>>, <<800, 0>>, <<0, 0>>}

InitViewport ==
    /\ \E size \in ViewportSizes :
         canvas = [InitCanvas EXCEPT !.clientWidth = size[1], !.clientHeight = size[2]]
    /\ \E damping \in BOOLEAN :
         LET cam == [NewCamera(<<0, 0, 500>>, "perspective", TRUE) EXCEPT !.hasControls = TRUE]
         IN /\ camera = cam
            /\ controls = UpdateSphericalFromCamera(
                              NewControls(<<0, 0, 0>>, damping, FALSE, NegInf, Inf), cam)
    /\ obs = InitObs
    /\ RenderIdle
    /\ EngineIdle

SpecViewport == InitViewport /\ [][NextOrbit]_vars

(***************************************************************************)
(* Zoom sequences: wheel notches and updates on a controller created at a  *)
(* given distance from its target                                          *)
(***************************************************************************)
\* number of zoom inputs and updates in one run
MaxZoomOps == 4

\* distances of the camera from the target when the controls are created:
\* minDistance, in between, maxDistance
ZoomDistances == {DefaultMinDistance, 5 * DefaultMinDistance, DefaultMaxDistance}

\* the operation record extended by the operation and the radius it leaves
Recorded(op, ctl) ==
    [Note(op) EXCEPT !.history = Append(@, [op |-> op, radius |-> ctl.spherical.radius])]

InitZoom ==
    /\ canvas = InitCanvas
    /\ \E damping \in BOOLEAN, distance \in ZoomDistances :
         LET cam == [NewCamera(<<0, 0, distance>>, "perspective", TRUE) EXCEPT !.hasControls = TRUE]
             ctl == UpdateSphericalFromCamera(NewControls(<<0, 0, 0>>, damping, FALSE, NegInf, Inf), cam)
         IN /\ camera = cam
            /\ controls = ctl
            /\ obs = [InitObs EXCEPT !.history = <<[op |-> "new", radius |-> ctl.spherical.radius]>>]
    /\ RenderIdle
    /\ EngineIdle

\* a wheel notch delivered to handleZoom: delta > 0 divides scale by 0.95^zoomSpeed
\* (the radius shrinks: zoom in), delta < 0 multiplies it (zoom out)
ZoomNotch ==
    /\ obs.ops < MaxZoomOps
    /\ \E delta \in {0 - 1, 1} :
         /\ controls' = HandleZoom(controls, delta)
         /\ obs' = Recorded(IF delta > 0 THEN "zoomIn" ELSE "zoomOut", controls')
    /\ UNCHANGED <<engineVars, canvas, camera, renderVars>>

\* Camera.update(deltaTime) between the notches
ZoomUpdate ==
    /\ obs.ops < MaxZoomOps
    /\ controls' = ControlsUpdate(controls, FrameMs)
    /\ camera' = [ControlsUpdateCamera(controls, camera, FrameMs) EXCEPT !.viewDirty = TRUE]
    /\ obs' = Recorded("update", controls')
    /\ UNCHANGED <<engineVars, canvas, renderVars>>

NextZoom == ZoomNotch \/ ZoomUpdate

SpecZoom == InitZoom /\ [][NextZoom]_vars

(***************************************************************************)
(* Renderer operations on a scene                                          *)
(***************************************************************************)
\* number of entities with a MeshRenderer in the scene
NumDrawables == 2

\* the entities a scene is built from: complete with the standard material,
\* complete with a basic material, without material, without mesh, without
\* Transform component
DrawableKinds ==
    { [mesh |-> TRUE, material |-> 1, transform |-> TRUE],
      [mesh |-> TRUE, material |-> 2, transform |-> TRUE],
      [mesh |-> TRUE, material |-> 0, transform |-> TRUE],
      [mesh |-> FALSE, material |-> 1, transform |-> TRUE],
      [mesh |-> TRUE, material |-> 1, transform |-> FALSE] }

\* canvas client sizes the page can take, <<clientWidth, clientHeight>>
ClientSizes == {<<800, 600>>, <<400, 400>>}

InitRender ==
    /\ canvas = InitCanvas
    /\ camera = NewCamera(<<0, 0, 500>>, "perspective", TRUE)
    /\ controls = NewControls(<<0, 0, 0>>, TRUE, FALSE, NegInf, Inf)
    /\ obs = InitObs
    /\ gpu \in [nullBindGroupThrows : BOOLEAN]
    /\ renderer = InitializedRenderer
    /\ \E failAt \in FailPoints : materials = <<NewStandardMaterial(failAt), NewBasicMaterial>>
    /\ drawables \in [1..NumDrawables -> DrawableKinds]
    /\ frame = NoFrame
    /\ EngineIdle

\* Renderer.render(scene, camera); surface is what getCurrentTexture() does
Render ==
    /\ renderer' = RenderedRenderer(renderer, camera, canvas)
    /\ canvas' = ResizedCanvas(canvas)
    /\ \E surface \in {"ok", "none", "throws"} :
         frame' = RenderedFrame(renderer, canvas, drawables, materials, gpu, surface)
    /\ UNCHANGED <<engineVars, camera, controls, obs, gpu, materials, drawables>>

\* Renderer.resize() called by Engine.resize()
RendererResize ==
    /\ renderer' = ResizedRenderer(renderer, canvas)
    /\ canvas' = ResizedCanvas(canvas)
    /\ frame' = NoFrame
    /\ UNCHANGED <<engineVars, camera, controls, obs, gpu, materials, drawables>>

\* the page lays the canvas out at another size
ClientResize ==
    /\ \E size \in ClientSizes :
         /\ <<canvas.clientWidth, canvas.clientHeight>> # size
         /\ canvas' = [canvas EXCEPT !.clientWidth = size[1], !.clientHeight = size[2]]
    /\ frame' = NoFrame
    /\ UNCHANGED <<engineVars, camera, controls, obs, gpu, renderer, materials, drawables>>

\* Renderer.dispose()
RendererDispose ==
    /\ renderer' = RendererDisposed(renderer)
    /\ frame' = NoFrame
    /\ UNCHANGED <<engineVars, camVars, gpu, materials, drawables>>

\* StandardMaterial.setTexture(texture) on the standard material
MaterialSetTexture ==
    /\ materials' = [materials EXCEPT ![1] = SetTexture(@)]
    /\ materials' # materials
    /\ frame' = NoFrame
    /\ UNCHANGED <<engineVars, camVars, gpu, renderer, drawables>>

NextRender ==
    \/ Render \/ RendererResize \/ ClientResize \/ RendererDispose
    \/ MaterialSetTexture

SpecRender == InitRender /\ [][NextRender]_vars

(***************************************************************************)
(* Camera operations on a camera without controls                          *)
(***************************************************************************)
\* arguments of setPosition, <<x, y, z>>
CameraPositions == {<<0, 0, 500>>, <<300, 100, 400>>}

\* arguments of setTarget and lookAt, <<x, y, z>>
CameraTargets == {<<0, 0, 0>>, <<0, 100, 0>>}

\* matrices a caller stores in the camera's caches: the identity
CallerMatrices == {[i \in 1..16 |-> IF i \in {1, 6, 11, 16} THEN T ELSE 0]}

InitCamera ==
    /\ canvas = InitCanvas
    /\ \E type \in {"perspective", "orthographic"}, auto \in BOOLEAN :
         camera = NewCamera(<<0, 0, 500>>, type, auto)
    /\ controls = NewControls(<<0, 0, 0>>, TRUE, FALSE, NegInf, Inf)
    /\ obs = InitObs
    /\ RenderIdle
    /\ EngineIdle

\* Camera.setPosition(x, y, z)
CamSetPosition ==
    /\ obs.ops < MaxOps
    /\ \E p \in CameraPositions : camera' = CameraSetPosition(camera, p)
    /\ obs' = Note("Camera.setPosition")
    /\ UNCHANGED <<engineVars, canvas, controls, renderVars>>

\* Camera.setTarget(x, y, z)
CamSetTarget ==
    /\ obs.ops < MaxOps
    /\ \E t \in CameraTargets : camera' = CameraSetTarget(camera, t)
    /\ obs' = Note("Camera.setTarget")
    /\ UNCHANGED <<engineVars, canvas, controls, renderVars>>

\* Camera.lookAt(x, y, z)
CamLookAt ==
    /\ obs.ops < MaxOps
    /\ \E t \in CameraTargets : camera' = CameraLookAt(camera, t)
    /\ obs' = Note("Camera.lookAt")
    /\ UNCHANGED <<engineVars, canvas, controls, renderVars>>

\* Camera.getViewMatrix()
CamGetViewMatrix ==
    /\ obs.ops < MaxOps
    /\ camera' = GetViewMatrix(camera)
    /\ obs' = [Note("Camera.getViewMatrix") EXCEPT
                  !.viewComputes = IF camera.viewDirty THEN @ + 1 ELSE @,
                  !.returned = camera'.viewMatrix]
    /\ UNCHANGED <<engineVars, canvas, controls, renderVars>>

\* Camera.getProjectionMatrix()
CamGetProjectionMatrix ==
    /\ obs.ops < MaxOps
    /\ camera' = GetProjectionMatrix(camera)
    /\ obs' = [Note("Camera.getProjectionMatrix") EXCEPT !.returned = camera'.projectionMatrix]
    /\ UNCHANGED <<engineVars, canvas, controls, renderVars>>

\* Camera.getViewProjectionMatrix()
CamGetViewProjectionMatrix ==
    /\ obs.ops < MaxOps
    /\ camera' = GetViewProjectionMatrix(camera)
    /\ obs' = [Note("Camera.getViewProjectionMatrix") EXCEPT
                  !.viewComputes = IF camera.viewDirty THEN @ + 1 ELSE @,
                  !.returned = ViewProjectionReturned(camera')]
    /\ UNCHANGED <<engineVars, canvas, controls, renderVars>>

\* Camera.resize()
CamResize ==
    /\ obs.ops < MaxOps
    /\ camera' = CameraResize(camera)
    /\ obs' = Note("Camera.resize")
    /\ UNCHANGED <<engineVars, canvas, controls, renderVars>>

\* Camera.update(deltaTime), no controls attached
CamUpdate ==
    /\ obs.ops < MaxOps
    /\ ~camera.hasControls
    /\ camera' = CameraUpdated(camera)
    /\ obs' = Note("Camera.update")
    /\ UNCHANGED <<engineVars, canvas, controls, renderVars>>

\* a caller fills one of the cached matrices it holds a reference to
CamStoreMatrix ==
    /\ obs.ops < MaxOps
    /\ \E which \in {"view", "projection"}, m \in CallerMatrices :
         /\ camera' = CameraStoreMatrix(camera, which, m)
         /\ camera' # camera
    /\ obs' = Note("Camera.storeMatrix")
    /\ UNCHANGED <<engineVars, canvas, controls, renderVars>>

NextCamera ==
    \/ CamSetPosition \/ CamSetTarget \/ CamLookAt \/ CamGetViewMatrix
    \/ CamGetProjectionMatrix \/ CamGetViewProjectionMatrix \/ CamResize \/ CamUpdate
    \/ CamStoreMatrix

SpecCamera == InitCamera /\ [][NextCamera]_vars

(***************************************************************************)
(* Engine loop operations.  The engine has a game manager, so each         *)
(* invocation of the loop function suspends once at                        *)
(* "await this.game.processStateChange()" before it calls the callback.    *)
(***************************************************************************)
\* number of animation-frame requests made in one run
MaxFrames == 6

InitEngine ==
    /\ canvas = InitCanvas
    /\ camera = NewCamera(<<0, 0, 500>>, "perspective", TRUE)
    /\ controls = NewControls(<<0, 0, 0>>, TRUE, FALSE, NegInf, Inf)
    /\ obs = InitObs
    /\ RenderIdle
    /\ EngineIdle

\* Engine.start(callback) on a stopped engine
EngineStart ==
    /\ ~engine.running
    /\ loop.nextId + loop.awaiting <= MaxFrames
    /\ engine' = [engine EXCEPT !.running = TRUE, !.animationFrame = loop.nextId]
    /\ loop' = RequestAnimationFrame(loop)
    /\ UNCHANGED <<game, camVars, renderVars>>

\* Engine.stop() called from outside the loop: from an event handler, also
\* one that runs while an invocation of the loop function is suspended
EngineStop ==
    /\ engine' = EngineStopped(engine)
    /\ loop' = QueueAfterStop(engine, loop)
    /\ UNCHANGED <<game, camVars, renderVars>>

\* the browser runs a pending animation-frame request: the loop function runs
\* up to its await (lines 232-246)
FrameFire ==
    /\ loop.nextId + loop.awaiting <= MaxFrames
    /\ \E id \in loop.pending :
         loop' = [loop EXCEPT !.pending = @ \ {id}, !.awaiting = @ + 1]
    /\ UNCHANGED <<engine, game, camVars, renderVars>>

\* a suspended invocation of the loop function resumes (lines 248-253): the
\* callback runs, and may itself call Engine.stop(); then the next frame is
\* requested and its id stored
LoopResume ==
    /\ loop.awaiting > 0
    /\ \E stopInside \in BOOLEAN :
         LET called == [loop EXCEPT !.awaiting = @ - 1, !.callbackCalls = @ + 1]
             e == IF stopInside THEN EngineStopped(engine) ELSE engine
             q == IF stopInside THEN QueueAfterStop(engine, called) ELSE called
         IN /\ engine' = [e EXCEPT !.animationFrame = q.nextId]
            /\ loop' = RequestAnimationFrame(q)
    /\ UNCHANGED <<game, camVars, renderVars>>

\* a suspended invocation of the loop function ends with an exception: the
\* awaited processStateChange() rejects (the new state's enter() failed), or
\* the frame callback throws.  Nothing in the loop function catches it, so
\* line 253 is not reached.
LoopFails ==
    /\ loop.awaiting > 0
    /\ \E thrower \in {"processStateChange", "callback"} :
         loop' = [loop EXCEPT !.awaiting = @ - 1,
                              !.callbackCalls = IF thrower = "callback" THEN @ + 1 ELSE @]
    /\ UNCHANGED <<engine, game, camVars, renderVars>>

NextEngine == EngineStart \/ EngineStop \/ FrameFire \/ LoopResume \/ LoopFails

SpecEngine == InitEngine /\ [][NextEngine]_vars

(***************************************************************************)
(* Lifecycle of a Renderer and of a StandardMaterial: construction,        *)
(* initialize() with any of its steps failing, dispose()                   *)
(***************************************************************************)
\* number of lifecycle calls in one run
MaxLifeOps == 3

\* the call of Renderer.initialize() that fails: "none" when all succeed,
\* "noAdapter" when requestAdapter() resolves to null
InitFailPoints ==
    { "none", "requestAdapter", "noAdapter", "requestDevice", "configureContext",
      "createDepthTexture", "createRenderPipeline", "createBindGroup" }

\* constructor(options): no WebGPU object is held.  initResult is the outcome
\* of the last initialize(): "none" before the first, "ok", or "raised" when
\* the error was rethrown to the caller
NewRenderer ==
    [ adapter |-> FALSE, device |-> FALSE, context |-> FALSE,
      depthTexture |-> FALSE, depthTextureView |-> FALSE, basicPipeline |-> FALSE,
      cameraUniformBufferHeld |-> FALSE, cameraBindGroup |-> FALSE,
      cameraUniformBuffer |-> ZeroMatrix, disposeCalled |-> FALSE, initResult |-> "none" ]

\* initialize(), lines 20-62: the fields assigned before the failing call stay
\* assigned, the catch clause logs and rethrows
RendererInitialized(r, failAt) ==
    LET raised(q) == [q EXCEPT !.initResult = "raised"]
        adapter == [r EXCEPT !.adapter = TRUE]
        device == [adapter EXCEPT !.device = TRUE]
        context == [device EXCEPT !.context = TRUE]
        depth == [context EXCEPT !.depthTexture = TRUE, !.depthTextureView = TRUE]
        pipeline == [depth EXCEPT !.basicPipeline = TRUE]
        buffer == [pipeline EXCEPT !.cameraUniformBufferHeld = TRUE]
    IN CASE failAt = "requestAdapter" -> raised(r)
         [] failAt = "noAdapter" -> raised([r EXCEPT !.adapter = FALSE])
         [] failAt = "requestDevice" -> raised(adapter)
         [] failAt = "configureContext" -> raised(context)
         [] failAt = "createDepthTexture" -> raised(context)
         [] failAt = "createRenderPipeline" -> raised(depth)
         [] failAt = "createBindGroup" -> raised(buffer)
         [] OTHER -> [buffer EXCEPT !.cameraBindGroup = TRUE, !.initResult = "ok"]

InitLifecycle ==
    /\ canvas = InitCanvas
    /\ camera = NewCamera(<<0, 0, 500>>, "perspective", TRUE)
    /\ controls = NewControls(<<0, 0, 0>>, TRUE, FALSE, NegInf, Inf)
    /\ obs = InitObs
    /\ gpu = [nullBindGroupThrows |-> FALSE]
    /\ renderer = NewRenderer
    /\ \E failAt \in FailPoints : materials = <<NewStandardMaterial(failAt)>>
    /\ drawables = <<>>
    /\ frame = NoFrame
    /\ EngineIdle

\* Engine.initialize() awaiting renderer.initialize(); not repeated once it
\* succeeded
LifeInitialize ==
    /\ obs.ops < MaxLifeOps
    /\ renderer.initResult # "ok"
    /\ \E failAt \in InitFailPoints : renderer' = RendererInitialized(renderer, failAt)
    /\ obs' = Note("Renderer.initialize")
    /\ UNCHANGED <<engineVars, canvas, camera, controls, gpu, materials, drawables, frame>>

\* Renderer.dispose()
LifeDispose ==
    /\ obs.ops < MaxLifeOps
    /\ renderer' = RendererDisposed(renderer)
    /\ obs' = Note("Renderer.dispose")
    /\ UNCHANGED <<engineVars, canvas, camera, controls, gpu, materials, drawables, frame>>

\* StandardMaterial.dispose()
LifeMaterialDispose ==
    /\ obs.ops < MaxLifeOps
    /\ materials' = [materials EXCEPT ![1] = MaterialDisposed(@)]
    /\ obs' = Note("Material.dispose")
    /\ UNCHANGED <<engineVars, canvas, camera, controls, gpu, renderer, drawables, frame>>

NextLifecycle == LifeInitialize \/ LifeDispose \/ LifeMaterialDispose

SpecLifecycle == InitLifecycle /\ [][NextLifecycle]_vars

(***************************************************************************)
(* Event listeners of the orbit controllers created for one camera.  Here  *)
(* controls is the sequence of all OrbitControls objects created so far    *)
(* (the last one is camera.controls) and canvas.listeners the listener     *)
(* list of the canvas.  A listener is identified by its event type and its *)
(* function: the method bound to the k-th controller (bound = k), or the   *)
(* method itself as found on the prototype (bound = 0).                    *)
(***************************************************************************)
\* number of calls and events in one run
MaxListenerOps == 4

\* the event types setupEvents() listens to, with the method it binds
Handlers ==
    { <<"mousedown", "onMouseDown">>, <<"mousemove", "onMouseMove">>,
      <<"mouseup", "onMouseUp">>, <<"wheel", "onMouseWheel">>,
      <<"touchstart", "onTouchStart">>, <<"touchmove", "onTouchMove">>,
      <<"touchend", "onTouchEnd">> }

\* setupEvents() of the k-th controller: addEventListener(type, this.method.bind(this))
SetupEvents(listeners, k) ==
    listeners \cup {[type |-> h[1], method |-> h[2], bound |-> k] : h \in Handlers}

\* dispose(): removeEventListener(type, this.method) with the unbound method
ControlsDisposedListeners(listeners) ==
    listeners \ {[type |-> h[1], method |-> h[2], bound |-> 0] : h \in Handlers}

\* new OrbitControls(camera, options): mouseState added to the controller
\* record; disposed notes that dispose() was called on it
NewListeningControls(cam) ==
    UpdateSphericalFromCamera(NewControls(<<0, 0, 0>>, TRUE, FALSE, NegInf, Inf), cam)
        @@ [leftDown |-> FALSE, disposed |-> FALSE]

\* the canvas dispatches an event: every listener of that type runs on the
\* controller it is bound to; handled[k] is the k-th controller after its
\* handler ran
Dispatched(type, handled) ==
    [k \in 1..Len(controls) |->
        IF \E l \in canvas.listeners : l.type = type /\ l.bound = k
        THEN handled[k]
        ELSE controls[k]]

\* onMouseDown(event), left button
OnMouseDown(ctl) == [ctl EXCEPT !.leftDown = TRUE]

\* onMouseMove(event) by <<deltaX, deltaY>>
OnMouseMove(ctl, d) == IF ctl.leftDown THEN HandleRotate(ctl, canvas, d[1], d[2]) ELSE ctl

\* onMouseWheel(event): one notch
OnMouseWheel(ctl, delta) == HandleZoom(ctl, delta)

InitListeners ==
    /\ camera = [NewCamera(<<0, 0, 500>>, "perspective", TRUE) EXCEPT !.hasControls = TRUE]
    /\ controls = <<NewListeningControls(camera)>>
    /\ canvas = InitCanvas @@ [listeners |-> SetupEvents({}, 1)]
    /\ obs = InitObs
    /\ RenderIdle
    /\ EngineIdle

\* Camera.createOrbitControls(options): dispose the existing controls, create
\* new ones
ListenCreateOrbitControls ==
    /\ obs.ops < MaxListenerOps
    /\ LET n == Len(controls)
           removed == ControlsDisposedListeners(canvas.listeners)
       IN /\ controls' = Append([controls EXCEPT ![n].disposed = TRUE],
                                NewListeningControls(camera))
          /\ canvas' = [canvas EXCEPT !.listeners = SetupEvents(removed, n + 1)]
    /\ obs' = Note("createOrbitControls")
    /\ UNCHANGED <<engineVars, camera, renderVars>>

\* camera.controls.dispose()
ListenDispose ==
    /\ obs.ops < MaxListenerOps
    /\ controls' = [controls EXCEPT ![Len(controls)].disposed = TRUE]
    /\ canvas' = [canvas EXCEPT !.listeners = ControlsDisposedListeners(@)]
    /\ obs' = Note("dispose")
    /\ UNCHANGED <<engineVars, camera, renderVars>>

\* the user presses the left button on the canvas
ListenMouseDown ==
    /\ obs.ops < MaxListenerOps
    /\ controls' = Dispatched("mousedown", [k \in 1..Len(controls) |-> OnMouseDown(controls[k])])
    /\ obs' = Note("mousedown")
    /\ UNCHANGED <<engineVars, canvas, camera, renderVars>>

\* the user moves the pointer over the canvas
ListenMouseMove ==
    /\ obs.ops < MaxListenerOps
    /\ \E d \in RotateDeltas :
         controls' = Dispatched("mousemove",
                                [k \in 1..Len(controls) |-> OnMouseMove(controls[k], d)])
    /\ obs' = Note("mousemove")
    /\ UNCHANGED <<engineVars, canvas, camera, renderVars>>

\* the user turns the wheel over the canvas
ListenWheel ==
    /\ obs.ops < MaxListenerOps
    /\ \E delta \in {0 - 1, 1} :
         controls' = Dispatched("wheel",
                                [k \in 1..Len(controls) |-> OnMouseWheel(controls[k], delta)])
    /\ obs' = Note("wheel")
    /\ UNCHANGED <<engineVars, canvas, camera, renderVars>>

NextListeners ==
    \/ ListenCreateOrbitControls \/ ListenDispose
    \/ ListenMouseDown \/ ListenMouseMove \/ ListenWheel

SpecListeners == InitListeners /\ [][NextListeners]_vars

(***************************************************************************)
(* Rotation uniforms of one entity: components added in any order          *)
(* (src/unnamed/part_003 Entity.addComponent), then the uniform upload of  *)
(* a frame.  Here drawables holds the one entity:                          *)
(*   meshRenderer   "none", or the type of the MeshRenderer's material     *)
(*   rotationAxis, rotationSpeed   the MeshRenderer's fields               *)
(*   rotator        the Rotator component, if present                      *)
(*   uploaded       axis and speed last written to the uniform buffer the  *)
(*                  entity is drawn with                                   *)
(* Axes in units of 1/T, speeds in units of 1/L.                           *)
(***************************************************************************)
\* options.axis of addComponent('Rotator', ...)
RotatorAxes == {<<0, T, 0>>, <<T, 0, 0>>, <<0, 0, 2 * T>>}
\* options.speed of addComponent('Rotator', ...); 0 stands for a missing or zero option
RotatorSpeeds == {0, 2 * L}

\* new Entity with a Transform and no other component
NewEntity ==
    [ meshRenderer |-> "none", rotationAxis |-> <<0, 0, 0>>, rotationSpeed |-> 0,
      rotator |-> [present |-> FALSE, axis |-> <<0, 0, 0>>, speed |-> 0],
      uploaded |-> [done |-> FALSE, axis |-> <<0, 0, 0>>, speed |-> 0] ]

\* new MeshRenderer(entity, {mesh, material}): rotationAxis = [0, 1, 0], rotationSpeed = 0.0
WithMeshRenderer(e, materialType) ==
    [e EXCEPT !.meshRenderer = materialType, !.rotationAxis = <<0, T, 0>>, !.rotationSpeed = 0]

\* new Rotator(entity, {axis, speed}): the axis is normalised and handed to a
\* MeshRenderer the entity already has
WithRotator(e, axis, speed) ==
    LET length == FLen3(axis[1], axis[2], axis[3])
        unit == IF length > 0
                THEN <<FDiv(axis[1], length, T), FDiv(axis[2], length, T), FDiv(axis[3], length, T)>>
                ELSE axis
        stored == IF speed = 0 THEN L ELSE speed
        held == [e EXCEPT !.rotator = [present |-> TRUE, axis |-> unit, speed |-> stored]]
    IN IF e.meshRenderer # "none"
       THEN [held EXCEPT !.rotationAxis = unit, !.rotationSpeed = stored]
       ELSE held

\* removeComponent('Rotator')
WithoutRotator(e) ==
    [e EXCEPT !.rotator = [present |-> FALSE, axis |-> <<0, 0, 0>>, speed |-> 0]]

\* the uniform refresh of render(): StandardMaterial.updateModelUniforms reads
\* the Rotator (speed 0.5 without one), MeshRenderer.updateModelUniforms
\* writes the MeshRenderer's own fields
UniformsUploaded(e) ==
    IF e.meshRenderer \in {"cubemap", "standard"}
    THEN [e EXCEPT !.uploaded =
            [done |-> TRUE,
             axis |-> IF e.rotator.present THEN e.rotator.axis ELSE <<0, T, 0>>,
             speed |-> IF e.rotator.present THEN e.rotator.speed ELSE L \div 2]]
    ELSE [e EXCEPT !.uploaded =
            [done |-> TRUE, axis |-> e.rotationAxis, speed |-> e.rotationSpeed]]

InitRotator ==
    /\ canvas = InitCanvas
    /\ camera = NewCamera(<<0, 0, 500>>, "perspective", TRUE)
    /\ controls = NewControls(<<0, 0, 0>>, TRUE, FALSE, NegInf, Inf)
    /\ obs = InitObs
    /\ gpu = [nullBindGroupThrows |-> FALSE]
    /\ renderer = InitializedRenderer
    /\ materials = <<NewStandardMaterial("none"), NewBasicMaterial>>
    /\ drawables = <<NewEntity>>
    /\ frame = NoFrame
    /\ EngineIdle

\* entity.addComponent('MeshRenderer', {mesh, material})
AddMeshRenderer ==
    /\ drawables[1].meshRenderer = "none"
    /\ \E m \in 1..Len(materials) :
         drawables' = [drawables EXCEPT ![1] = WithMeshRenderer(@, materials[m].type)]
    /\ obs' = [obs EXCEPT !.lastOp = "addMeshRenderer"]
    /\ UNCHANGED <<engineVars, canvas, camera, controls, gpu, renderer, materials, frame>>

\* entity.addComponent('Rotator', {axis, speed})
AddRotator ==
    /\ ~drawables[1].rotator.present
    /\ \E axis \in RotatorAxes, speed \in RotatorSpeeds :
         drawables' = [drawables EXCEPT ![1] = WithRotator(@, axis, speed)]
    /\ obs' = [obs EXCEPT !.lastOp = "addRotator"]
    /\ UNCHANGED <<engineVars, canvas, camera, controls, gpu, renderer, materials, frame>>

\* entity.removeComponent('Rotator')
RemoveRotator ==
    /\ drawables[1].rotator.present
    /\ drawables' = [drawables EXCEPT ![1] = WithoutRotator(@)]
    /\ obs' = [obs EXCEPT !.lastOp = "removeRotator"]
    /\ UNCHANGED <<engineVars, canvas, camera, controls, gpu, renderer, materials, frame>>

\* render(): the uniform refresh of the entity
UploadUniforms ==
    /\ drawables[1].meshRenderer # "none"
    /\ drawables' = [drawables EXCEPT ![1] = UniformsUploaded(@)]
    /\ obs' = [obs EXCEPT !.lastOp = "upload"]
    /\ UNCHANGED <<engineVars, canvas, camera, controls, gpu, renderer, materials, frame>>

NextRotator == AddMeshRenderer \/ AddRotator \/ RemoveRotator \/ UploadUniforms

SpecRotator == InitRotator /\ [][NextRotator]_vars

(***************************************************************************)
(* SpecGame: the level of the sample game (GameplayState.js) under         *)
(* Scene.update: one obstacle, one collectible and the player, each with a *)
(* box Collision component.  Positions are (x, z) in units of 1/L.         *)
(***************************************************************************)
PlayerSteps == {<<L \div 2, 0>>, <<0 - (L \div 2), 0>>, <<0, L \div 2>>, <<0, 0 - (L \div 2)>>}

\* new Entity(scene, id, name) with the Transform and Collision components the
\* level gives it; an Entity has the fields scene, id, name, components, active.
\* callbacks are the callbacks its Collision component was given; overlapped
\* records the entities its box overlapped when its collider was last updated.
LevelEntity(id, name, position, size, callbacks) ==
    [id |-> id, name |-> name, active |-> TRUE,
     components |-> {"Transform", "Collision"},
     position |-> position, size |-> size, collidingWith |-> {},
     callbacks |-> callbacks, overlapped |-> {}]

\* GameplayState after enter(): createLevel() then createPlayer()
NewLevel ==
    [manager |-> FALSE,
     entities |-> << LevelEntity(1, "Obstacle", <<L, 0>>, L, {"onCollisionEnter"}),
                     LevelEntity(2, "Collectible", <<0 - L, 0>>, L \div 2, {"onCollisionEnter"}),
                     LevelEntity(3, "Player", <<0, 0>>, L \div 2, {}) >>,
     scene |-> {1, 2, 3}, player |-> 3, obstacles |-> {1}, collectibles |-> {2},
     lives |-> 3, score |-> 0, gameOver |-> FALSE, paused |-> FALSE,
     levelComplete |-> FALSE, listening |-> FALSE, events |-> {}]

\* the same entities with Collision components that were given all three
\* callbacks, each of which only takes note of its call; game.events are the
\* calls <<collider, callback, other entity>> of the last Scene.update
ListeningLevel ==
    [NewLevel EXCEPT !.listening = TRUE,
                     !.entities = [k \in 1..3 |->
                         [NewLevel.entities[k] EXCEPT !.callbacks =
                             {"onCollisionEnter", "onCollisionStay", "onCollisionExit"}]]]

\* Collision.checkBoxBoxCollision: strict overlap of the boxes on every axis
\* (|pA - pB| < sizeA/2 + sizeB/2), false when either entity has no Transform
CheckCollision(a, b) ==
    /\ "Transform" \in a.components
    /\ "Transform" \in b.components
    /\ \A k \in 1..2 : 2 * Abs(a.position[k] - b.position[k]) < a.size + b.size

\* GameplayState.handleObstacleCollision
HandleObstacleCollision(g) ==
    LET hit == [g EXCEPT !.lives = @ - 1]
    IN IF hit.lives <= 0
       THEN [hit EXCEPT !.gameOver = TRUE]
       ELSE [hit EXCEPT !.entities[g.player].position = <<0, 0>>]

\* GameplayState.collectItem, with Scene.removeEntity and Entity.dispose
CollectItem(g, item) ==
    LET left == g.collectibles \ {item}
    IN [g EXCEPT !.score = @ + L,
                 !.collectibles = left,
                 !.entities[item].components = {},
                 !.scene = @ \ {item},
                 !.levelComplete = (left = {})]

\* the onCollisionEnter callback of collider self, called with the other
\* Entity: it compares other.entity with the player.  Reading a property an
\* object does not have yields undefined (0 here, entity ids start at 1).
OnCollisionEnter(g, self, other) ==
    LET otherEntity == IF "entity" \in DOMAIN other THEN other.entity ELSE 0
    IN IF otherEntity # g.player THEN g
       ELSE IF self \in g.obstacles THEN HandleObstacleCollision(g)
       ELSE IF self \in g.collectibles THEN CollectItem(g, self)
       ELSE g

\* `if (this.onCollisionX) this.onCollisionX(otherEntity)`: the call, when the
\* collider was given the callback; the sample game's obstacle and collectible
\* callbacks act on the game
CallbackCalled(g, self, callback, other) ==
    IF callback \notin g.entities[self].callbacks THEN g
    ELSE LET noted == [g EXCEPT !.events = @ \cup {<<self, callback, other>>}]
         IN IF callback = "onCollisionEnter" /\ ~g.listening
            THEN OnCollisionEnter(noted, self, g.entities[other])
            ELSE noted

\* the loop of Collision.update calling onCollisionEnter for every overlapping
\* collider, also one it was already colliding with
RECURSIVE CollisionCheckedEnteringAgain(_, _, _, _)
CollisionCheckedEnteringAgain(g, self, others, current) ==
    IF others = <<>>
    THEN [g EXCEPT !.entities[self].collidingWith = current]
    ELSE LET other == Head(others)
         IN IF other = self \/ ~CheckCollision(g.entities[self], g.entities[other])
            THEN CollisionCheckedEnteringAgain(g, self, Tail(others), current)
            ELSE CollisionCheckedEnteringAgain(
                    CallbackCalled(g, self, "onCollisionEnter", other),
                    self, Tail(others), current \cup {other})

\* Collision.update of entity self, lines 82-104: the loop over the other
\* colliders; current collects currentCollisions
RECURSIVE CollisionChecked(_, _, _, _)
CollisionChecked(g, self, others, current) ==
    IF others = <<>>
    THEN [g EXCEPT !.entities[self].collidingWith = current]
    ELSE LET other == Head(others)
         IN IF other = self \/ ~CheckCollision(g.entities[self], g.entities[other])
            THEN CollisionChecked(g, self, Tail(others), current)
            ELSE CollisionChecked(
                    IF other \in g.entities[self].collidingWith
                    THEN CallbackCalled(g, self, "onCollisionStay", other)
                    ELSE CallbackCalled(g, self, "onCollisionEnter", other),
                    self, Tail(others), current \cup {other})

\* Collision.update, lines 106-117: onCollisionExit for the entities of ended,
\* in the Set's order, that scene.getEntity still finds
RECURSIVE CollisionsEnded(_, _, _)
CollisionsEnded(g, self, ended) ==
    IF ended = <<>> THEN g
    ELSE CollisionsEnded(IF Head(ended) \in g.scene
                         THEN CallbackCalled(g, self, "onCollisionExit", Head(ended))
                         ELSE g,
                         self, Tail(ended))

\* Entity.update of one entity of the scene: Collision.update, the exits being
\* found before collidingWith is replaced
EntityUpdated(g, self) ==
    IF self \notin g.scene \/ ~g.entities[self].active
          \/ "Collision" \notin g.entities[self].components
    THEN g
    ELSE LET before == g.entities[self].collidingWith
             now == {o \in g.scene \ {self} :
                        CheckCollision(g.entities[self], g.entities[o])}
             checked == CollisionChecked(g, self,
                            SelectSeq(<<1, 2, 3>>, LAMBDA id : id \in g.scene), {})
             current == checked.entities[self].collidingWith
             ended == SelectSeq(<<1, 2, 3>>, LAMBDA id : id \in before \ current)
             exited == CollisionsEnded([checked EXCEPT !.entities[self].collidingWith = before],
                                       self, ended)
         IN [exited EXCEPT !.entities[self].collidingWith = current,
                           !.entities[self].overlapped = now]

\* Scene.update: every entity in creation order
SceneUpdated(g) ==
    EntityUpdated(EntityUpdated(EntityUpdated([g EXCEPT !.events = {}], 1), 2), 3)

InitGame ==
    /\ canvas = InitCanvas
    /\ camera = NewCamera(<<0, 0, 500>>, "perspective", TRUE)
    /\ controls = NewControls(<<0, 0, 0>>, TRUE, FALSE, NegInf, Inf)
    /\ obs = InitObs
    /\ gpu = [nullBindGroupThrows |-> FALSE]
    /\ renderer = InitializedRenderer
    /\ materials = <<>>
    /\ drawables = <<>>
    /\ frame = NoFrame
    /\ engine = NewEngine
    /\ loop = NewLoop
    /\ game \in {NewLevel, ListeningLevel}

\* the Input component moves the player's Transform
MovePlayer ==
    /\ ~game.gameOver
    /\ \E d \in PlayerSteps :
         LET p == game.entities[game.player].position
             q == <<p[1] + d[1], p[2] + d[2]>>
         IN /\ Abs(q[1]) <= 3 * (L \div 2) /\ Abs(q[2]) <= L
            /\ game' = [game EXCEPT !.entities[game.player].position = q]
    /\ obs' = [obs EXCEPT !.lastOp = "movePlayer"]
    /\ UNCHANGED <<engine, loop, canvas, camera, controls, renderVars>>

\* GameplayState.update: a collectible that fell off the world is removed
\* from the scene (Scene.removeEntity, Entity.dispose)
GameCollectibleFalls ==
    /\ \E item \in game.collectibles :
         game' = [game EXCEPT !.collectibles = @ \ {item},
                              !.entities[item].components = {},
                              !.scene = @ \ {item}]
    /\ obs' = [obs EXCEPT !.lastOp = "collectibleFalls"]
    /\ UNCHANGED <<engine, loop, canvas, camera, controls, renderVars>>

\* the Escape key: GameplayState.togglePause
GameTogglePause ==
    /\ game' = [game EXCEPT !.paused = ~@]
    /\ obs' = [obs EXCEPT !.lastOp = "togglePause"]
    /\ UNCHANGED <<engine, loop, canvas, camera, controls, renderVars>>

\* one frame of GameplayState.update: paused, game over or neither, it ends
\* in super.update(), whose engine.render() begins with scene.update()
\* (Renderer.js line 414)
GameSceneUpdate ==
    /\ game' = SceneUpdated(game)
    /\ obs' = [obs EXCEPT !.lastOp = "sceneUpdate"]
    /\ UNCHANGED <<engine, loop, canvas, camera, controls, renderVars>>

NextGame == MovePlayer \/ GameCollectibleFalls \/ GameTogglePause \/ GameSceneUpdate

SpecGame == InitGame /\ [][NextGame]_vars

(***************************************************************************)
(* SpecManager: the GameManager (src/unnamed/part_004) driven by the       *)
(* engine loop of Engine.startGame, by scheduleStateChange() and by the    *)
(* direct changeState() calls of the states' buttons and key handlers.     *)
(* A state instance is a record of what has happened to it; enter() is     *)
(* asynchronous and is settled by a later step.                            *)
(***************************************************************************)
MaxGameOps == 5

\* the ids the states ask for: 'options' and 'credits' are never registered
StateIds == {"menu", "gameplay", "options"}

\* Engine.registerGameStates
RegisteredStates == {"menu", "gameplay"}

\* new GameManager(engine), states registered, and the loop of Engine.start
\* with its first frame requested
NewGameManager ==
    [manager |-> TRUE, states |-> RegisteredStates,
     currentState |-> 0, nextStateId |-> "null", instances |-> <<>>,
     loop |-> [at |-> "queued", on |-> 0],
     last |-> [id |-> "null", returned |-> "none"]]

\* new StateClass(this, params) followed by the synchronous part of enter()
NewGameState(id) ==
    [id |-> id, enter |-> "pending", exits |-> 0, exitedEntering |-> FALSE,
     setupAfterExit |-> FALSE, updates |-> 0]

\* changeState() running the current state's exit() before the id is looked up
ChangeStateExitingFirst(g, stateId) ==
    LET exited == IF g.currentState = 0 THEN g
                  ELSE [g EXCEPT !.instances[g.currentState].exits = @ + 1]
    IN IF stateId \notin g.states
       THEN [exited EXCEPT !.last = [id |-> stateId, returned |-> "false"]]
       ELSE [exited EXCEPT !.instances = Append(@, NewGameState(stateId)),
                           !.currentState = Len(g.instances) + 1,
                           !.last = [id |-> stateId, returned |-> "pending"]]

\* changeState(stateId), lines 25-39: up to the await of enter()
ChangeStateStarted(g, stateId) ==
    IF stateId \notin g.states
    THEN [g EXCEPT !.last = [id |-> stateId, returned |-> "false"]]
    ELSE LET exited ==
                 IF g.currentState = 0 THEN g.instances
                 ELSE [g.instances EXCEPT
                          ![g.currentState].exits = @ + 1,
                          ![g.currentState].exitedEntering = (@ \/ g.instances[g.currentState].enter = "pending")]
         IN [g EXCEPT !.instances = Append(exited, NewGameState(stateId)),
                      !.currentState = Len(g.instances) + 1,
                      !.last = [id |-> stateId, returned |-> "pending"]]

\* GameManager.update(deltaTime)
ManagerUpdate(g) ==
    IF g.nextStateId # "null" \/ g.currentState = 0
    THEN g
    ELSE [g EXCEPT !.instances[g.currentState].updates = @ + 1]

\* one invocation of the engine's loop function: processStateChange(), awaited,
\* then the game.update callback.  The invocation is suspended when a
\* changeState() was started.
LoopFrame(g) ==
    IF g.nextStateId = "null"
    THEN ManagerUpdate(g)
    ELSE LET started == ChangeStateStarted([g EXCEPT !.nextStateId = "null"], g.nextStateId)
         IN IF g.nextStateId \in g.states
            THEN [started EXCEPT !.loop = [at |-> "awaiting", on |-> started.currentState]]
            ELSE ManagerUpdate(started)

\* the rest of enter() of instance k once its resources have loaded, then the
\* rest of the changeState() that awaits it (lines 41-45), then the rest of the
\* loop invocation that awaits that.  After exit() the scene is null:
\* MenuState.enter still finishes (setupInput), GameplayState.enter throws
\* at this.scene.createEntity() after creating the floor's material and texture.
EnterSettled(g, k) ==
    LET inst == g.instances[k]
        throws == inst.exits > 0 /\ inst.id = "gameplay"
        settled == [g EXCEPT !.instances[k].enter = IF throws THEN "failed" ELSE "done",
                             !.instances[k].setupAfterExit = (inst.exits > 0)]
        resumed == IF throws THEN settled ELSE [settled EXCEPT !.nextStateId = "null"]
    IN IF g.loop.at = "awaiting" /\ g.loop.on = k
       THEN IF throws
            THEN [resumed EXCEPT !.loop = [at |-> "dead", on |-> 0]]
            ELSE [ManagerUpdate(resumed) EXCEPT !.loop = [at |-> "queued", on |-> 0]]
       ELSE resumed

\* Engine.startGame(): the initial state is scheduled and the loop started
InitManager ==
    /\ canvas = InitCanvas
    /\ camera = NewCamera(<<0, 0, 500>>, "perspective", TRUE)
    /\ controls = NewControls(<<0, 0, 0>>, TRUE, FALSE, NegInf, Inf)
    /\ RenderIdle
    /\ engine = NewEngine
    /\ loop = NewLoop
    /\ obs = [InitObs EXCEPT !.history = <<"menu">>]
    /\ game = [NewGameManager EXCEPT !.nextStateId = "menu"]

\* scheduleStateChange(stateId)
MgrSchedule ==
    /\ obs.ops < MaxGameOps
    /\ \E id \in StateIds :
         /\ game' = [game EXCEPT !.nextStateId = id]
         /\ obs' = [Note("scheduleStateChange") EXCEPT !.history = <<id>>]
    /\ UNCHANGED <<engine, loop, canvas, camera, controls, renderVars>>

\* a direct changeState(stateId) from a button or key handler, not awaited
MgrChangeState ==
    /\ obs.ops < MaxGameOps
    /\ \E id \in StateIds : game' = ChangeStateStarted(game, id)
    /\ obs' = Note("changeState")
    /\ UNCHANGED <<engine, loop, canvas, camera, controls, renderVars>>

\* the browser runs the requested animation frame
MgrFrame ==
    /\ obs.ops < MaxGameOps
    /\ game.loop.at = "queued"
    /\ game' = LoopFrame(game)
    /\ obs' = [Note("frame") EXCEPT !.history = IF game.nextStateId = "null" THEN @ ELSE <<>>]
    /\ UNCHANGED <<engine, loop, canvas, camera, controls, renderVars>>

\* the resources a state's enter() waits for have loaded
MgrEnterSettles ==
    /\ obs.ops < MaxGameOps
    /\ \E k \in 1..Len(game.instances) :
         /\ game.instances[k].enter = "pending"
         /\ game' = EnterSettled(game, k)
    /\ obs' = Note("enterSettled")
    /\ UNCHANGED <<engine, loop, canvas, camera, controls, renderVars>>

NextManager == MgrSchedule \/ MgrChangeState \/ MgrFrame \/ MgrEnterSettles

SpecManager == InitManager /\ [][NextManager]_vars

(***************************************************************************)
(* SpecRestart: the score, level and lives kept by the GameManager and by  *)
(* the GameplayState it creates.  game.currentState.entered is FALSE       *)
(* before the gameplay state is created.                                   *)
(***************************************************************************)
\* new GameplayState(gameManager, params): the game settings are read from the
\* manager, params is not consulted
NewGameplayState(g) ==
    [entered |-> TRUE, level |-> g.level, score |-> g.score, lives |-> g.lives,
     gameOver |-> FALSE, paused |-> FALSE]

\* GameplayState.exit(): the final stats are written to the manager
GameplayExited(g) ==
    [g EXCEPT !.score = g.currentState.score,
              !.level = g.currentState.level,
              !.lives = g.currentState.lives]

\* GameManager.reset()
ManagerReset(g) == [g EXCEPT !.score = 0, !.level = 1, !.lives = 3]

\* changeState('gameplay'): exit() of the current state, then the new state
GameplayEntered(g) ==
    LET left == IF g.currentState.entered THEN GameplayExited(g) ELSE g
    IN [left EXCEPT !.currentState = NewGameplayState(left)]

\* GameplayState.restartGame(): reset() and changeState('gameplay')
RestartedGame(g) == GameplayEntered(ManagerReset(g))

\* new GameManager(engine)
InitRestart ==
    /\ canvas = InitCanvas
    /\ camera = NewCamera(<<0, 0, 500>>, "perspective", TRUE)
    /\ controls = NewControls(<<0, 0, 0>>, TRUE, FALSE, NegInf, Inf)
    /\ obs = InitObs
    /\ RenderIdle
    /\ engine = NewEngine
    /\ loop = NewLoop
    /\ game = [manager |-> TRUE, score |-> 0, level |-> 1, lives |-> 3,
               currentState |-> [entered |-> FALSE]]

\* GameManager.addScore(points)
RsAddScore ==
    /\ obs.ops < MaxGameOps
    /\ game' = [game EXCEPT !.score = @ + 100]
    /\ obs' = Note("addScore")
    /\ UNCHANGED <<engine, loop, canvas, camera, controls, renderVars>>

\* GameManager.addLives(lives)
RsAddLives ==
    /\ obs.ops < MaxGameOps
    /\ \E n \in {0 - 1, 1} : game' = [game EXCEPT !.lives = @ + n]
    /\ obs' = Note("addLives")
    /\ UNCHANGED <<engine, loop, canvas, camera, controls, renderVars>>

\* changeState('gameplay') from the menu or from a gameplay state
RsChangeToGameplay ==
    /\ obs.ops < MaxGameOps
    /\ game' = GameplayEntered(game)
    /\ obs' = Note("changeState")
    /\ UNCHANGED <<engine, loop, canvas, camera, controls, renderVars>>

\* the Restart button of the gameplay state
RsRestartGame ==
    /\ obs.ops < MaxGameOps
    /\ game.currentState.entered
    /\ game' = RestartedGame(game)
    /\ obs' = Note("restartGame")
    /\ UNCHANGED <<engine, loop, canvas, camera, controls, renderVars>>

NextRestart == RsAddScore \/ RsAddLives \/ RsChangeToGameplay \/ RsRestartGame

SpecRestart == InitRestart /\ [][NextRestart]_vars

(***************************************************************************)
(* SpecAudio: the music of the AudioManager (src/src/game/GameState.js).   *)
(* game.sources are the buffer sources created so far, game.currentMusic   *)
(* the index of the current one (0 for null), game.timers the fade-out     *)
(* timers not yet fired, each with the music that was current when it was  *)
(* set.                                                                    *)
(***************************************************************************)
MusicNames == {"menu", "gameplay"}

\* the fade-out timer set by playMusic() and stopMusic()
FadeTimer(a, guarded) == [guarded |-> guarded, fading |-> a.currentMusic]

\* playMusic(name, options) for a loaded piece of music
MusicPlayed(a, name) ==
    [a EXCEPT !.timers = IF a.currentMusic # 0 THEN Append(@, FadeTimer(a, FALSE)) ELSE @,
              !.sources = Append(@, [name |-> name, playing |-> TRUE]),
              !.currentMusic = Len(a.sources) + 1]

\* stopMusic(fadeOutDuration)
MusicStopped(a, fadeOutDuration) ==
    IF a.currentMusic = 0 THEN a
    ELSE IF fadeOutDuration > 0
    THEN [a EXCEPT !.timers = Append(@, FadeTimer(a, TRUE))]
    ELSE [a EXCEPT !.sources[a.currentMusic].playing = FALSE, !.currentMusic = 0]

\* the callback of timer i runs: it stops this.currentMusic as it is now;
\* playMusic's callback has no null test and throws when there is none
TimerFired(a, i) ==
    LET rest == SubSeq(a.timers, 1, i - 1) \o SubSeq(a.timers, i + 1, Len(a.timers))
    IN IF a.currentMusic = 0
       THEN [a EXCEPT !.timers = rest, !.thrown = (@ \/ ~a.timers[i].guarded)]
       ELSE [a EXCEPT !.timers = rest,
                      !.sources[a.currentMusic].playing = FALSE,
                      !.currentMusic = 0]

\* new AudioManager(engine), music loaded
InitAudio ==
    /\ canvas = InitCanvas
    /\ camera = NewCamera(<<0, 0, 500>>, "perspective", TRUE)
    /\ controls = NewControls(<<0, 0, 0>>, TRUE, FALSE, NegInf, Inf)
    /\ obs = InitObs
    /\ RenderIdle
    /\ engine = NewEngine
    /\ loop = NewLoop
    /\ game = [manager |-> FALSE, sources |-> <<>>, currentMusic |-> 0,
               timers |-> <<>>, thrown |-> FALSE]

AudioPlayMusic ==
    /\ obs.ops < MaxGameOps
    /\ \E name \in MusicNames : game' = MusicPlayed(game, name)
    /\ obs' = Note("playMusic")
    /\ UNCHANGED <<engine, loop, canvas, camera, controls, renderVars>>

AudioStopMusic ==
    /\ obs.ops < MaxGameOps
    /\ \E fade \in {0, 1} : game' = MusicStopped(game, fade)
    /\ obs' = Note("stopMusic")
    /\ UNCHANGED <<engine, loop, canvas, camera, controls, renderVars>>

\* a fade-out timer expires (the durations are the callers' choice)
AudioTimerFires ==
    /\ obs.ops < MaxGameOps
    /\ \E i \in 1..Len(game.timers) : game' = TimerFired(game, i)
    /\ obs' = Note("timer")
    /\ UNCHANGED <<engine, loop, canvas, camera, controls, renderVars>>

NextAudio == AudioPlayMusic \/ AudioStopMusic \/ AudioTimerFires

SpecAudio == InitAudio /\ [][NextAudio]_vars

(***************************************************************************)
(* Claims about the orbit controller (checked under SpecOrbit)             *)
(***************************************************************************)
\* C1: after each update() the orbit radius lies in [minDistance, maxDistance],
\* whatever rotate, zoom, pan, setTarget and setPosition calls preceded it.
C1_RadiusClampedAfterUpdate ==
    obs.lastOp = "update" =>
        InRange(controls.spherical.radius, controls.minDistance, controls.maxDistance)

\* C10: after each update() phi lies in [minPolarAngle, maxPolarAngle] and theta
\* in [minAzimuthAngle, maxAzimuthAngle], whatever rotate inputs, auto-rotation
\* and setTarget/setPosition calls preceded it.
C10_AnglesClampedAfterUpdate ==
    obs.lastOp = "update" =>
        /\ InRange(controls.spherical.phi, controls.minPolarAngle, controls.maxPolarAngle)
        /\ InRange(controls.spherical.theta, controls.minAzimuthAngle, controls.maxAzimuthAngle)

\* the step is an update() of the orbit controller
IsUpdateStep == obs'.lastOp = "update" /\ obs'.ops = obs.ops + 1

\* |after| <= |before|, strictly when before is a non-zero number, same direction
ShrinksTowardZero(before, after) ==
    IsFin(before) =>
        /\ Abs(after) <= Abs(before)
        /\ before # 0 => Abs(after) < Abs(before)
        /\ after = 0 \/ Sign(after) = Sign(before)

\* C12: without auto-rotation an update() with damping enabled multiplies the
\* pending theta and phi deltas by (1 - dampingFactor), which shrinks their
\* magnitude toward zero; with damping disabled it sets both to zero.
C12_DampingDecaysDeltas ==
    [][(IsUpdateStep /\ ~controls.autoRotate) =>
          LET before == controls.sphericalDelta
              after == controls'.sphericalDelta
              keep == L - controls.dampingFactor
          IN IF controls.enableDamping
             THEN /\ after.theta = FMul(before.theta, keep, L)
                  /\ after.phi = FMul(before.phi, keep, L)
                  /\ ShrinksTowardZero(before.theta, after.theta)
                  /\ ShrinksTowardZero(before.phi, after.phi)
             ELSE after.theta = 0 /\ after.phi = 0]_vars

\* an update() has damped a rotate drag and part of it is still pending
C12_Witness ==
    /\ obs.lastOp = "update"
    /\ controls.enableDamping /\ ~controls.autoRotate
    /\ controls.sphericalDelta.theta # 0
    /\ IsFin(controls.sphericalDelta.theta)

\* the controller has only been updated since it was created (at most once)
OnlyUpdatedSoFar == obs.ops = 0 \/ (obs.ops = 1 /\ obs.lastOp = "update")

\* C13: with autoRotate enabled, an unconstrained azimuth and no user input,
\* each update(deltaTime) changes theta by -2*pi/3600 * autoRotateSpeed *
\* deltaTime, with damping enabled as well as disabled (stated for the first two
\* updates of a controller).
C13_AutoRotateStepPerUpdate ==
    [][(/\ IsUpdateStep /\ OnlyUpdatedSoFar
        /\ controls.autoRotate
        /\ controls.minAzimuthAngle = NegInf /\ controls.maxAzimuthAngle = Inf)
       => controls'.spherical.theta
            = FSub(controls.spherical.theta, AutoRotateStep(controls, FrameMs))]_vars

\* C14: one update() runs its phases in order. The angles it leaves are the old
\* angles plus the whole pending deltas (and the auto-rotate increment), clamped;
\* the radius is the old one divided by the pending scale, clamped; the camera
\* position it writes is computed from these new spherical coordinates plus
\* target plus the pan offset as it was before its decay; afterwards no zoom is
\* pending and scale is 1.
C14_UpdatePhasesInOrder ==
    [][IsUpdateStep =>
          LET ctl == controls
              dTheta == IF ctl.autoRotate
                        THEN FSub(ctl.sphericalDelta.theta, AutoRotateStep(ctl, FrameMs))
                        ELSE ctl.sphericalDelta.theta
              undecayed == [controls' EXCEPT !.panOffset = ctl.panOffset]
          IN /\ controls'.spherical.theta
                  = FMax(ctl.minAzimuthAngle,
                         FMin(ctl.maxAzimuthAngle, FAdd(ctl.spherical.theta, dTheta)))
             /\ controls'.spherical.phi
                  = FMax(ctl.minPolarAngle,
                         FMin(ctl.maxPolarAngle,
                              FAdd(ctl.spherical.phi, ctl.sphericalDelta.phi)))
             /\ ctl.zoomChanged =>
                  controls'.spherical.radius
                    = FMax(ctl.minDistance,
                           FMin(ctl.maxDistance, FDiv(ctl.spherical.radius, ctl.scale, T)))
             /\ camera'.position = UpdateCameraFromSpherical(undecayed, camera).position
             /\ camera'.target = ctl.target
             /\ controls'.scale = T /\ ~controls'.zoomChanged]_vars

\* an update() has applied a zoom and moved the camera by a pan offset that is
\* still decaying
C14_Witness ==
    /\ obs.lastOp = "update"
    /\ controls.panOffset # <<0, 0, 0>>
    /\ controls.spherical.radius # 5 * DefaultMinDistance
    /\ controls.scale = T /\ ~controls.zoomChanged
    /\ camera.position[1] # 0

\* C24: when phi plus the pending phi delta lies beyond a polar limit, phi
\* equals exactly that limit after update().
C24_PhiStopsAtPolarLimit ==
    [][IsUpdateStep =>
        LET carried == FAdd(controls.spherical.phi, controls.sphericalDelta.phi)
        IN /\ (~IsNaN(carried) /\ carried > controls.maxPolarAngle)
                => controls'.spherical.phi = controls.maxPolarAngle
           /\ (~IsNaN(carried) /\ carried < controls.minPolarAngle)
                => controls'.spherical.phi = controls.minPolarAngle]_vars

\* an update() has stopped a rotate drag at a pole
C24_Witness ==
    /\ obs.lastOp = "update"
    /\ controls.sphericalDelta.phi # 0
    /\ controls.spherical.phi \in {controls.minPolarAngle, controls.maxPolarAngle}

(***************************************************************************)
(* Claims about drags on a collapsed canvas (checked under SpecViewport)   *)
(***************************************************************************)
\* C15: a rotate or pan drag that arrives while the canvas client width or
\* height is 0 is a no-op: it leaves the pending deltas and panOffset as they
\* were (no quotient by the zero size enters them).
C15_ZeroViewportDragIsNoOp ==
    [][(/\ obs'.lastOp \in {"rotate", "pan"} /\ obs'.ops = obs.ops + 1
        /\ (canvas.clientWidth = 0 \/ canvas.clientHeight = 0))
       => /\ controls'.sphericalDelta = controls.sphericalDelta
          /\ controls'.panOffset = controls.panOffset]_vars

(***************************************************************************)
(* Claims about zoom sequences (checked under SpecZoom)                    *)
(***************************************************************************)
\* the operations of the run so far, oldest first
HistoryOps == [k \in 1..Len(obs.history) |-> obs.history[k].op]

\* C11: a zoom in followed by the inverse zoom out leaves the radius at its
\* original value clamped to [minDistance, maxDistance] (within one hundredth of
\* a unit), both when one update() applies the two inputs and when each input
\* is applied by an update() of its own.
C11_ZoomInOutRestoresRadius ==
    (\/ HistoryOps = <<"new", "zoomIn", "zoomOut", "update">>
     \/ HistoryOps = <<"new", "zoomIn", "update", "zoomOut", "update">>)
    => LET original == obs.history[1].radius
           clamped == FMax(controls.minDistance, FMin(controls.maxDistance, original))
       IN Abs(controls.spherical.radius - clamped) <= 1

(***************************************************************************)
(* Claims about the renderer (checked under SpecRender)                    *)
(***************************************************************************)
\* the drawables a frame recorded a draw call for
Drawn == {frame.draws[k] : k \in 1..Len(frame.draws)}

\* C2: render() never issues a draw call for a drawable whose material's
\* readiness flag (initialized) is false; such a drawable is skipped.
C2_NoDrawBeforeReady ==
    frame.op = "render" =>
        \A i \in Drawn :
            materials[drawables[i].material].type = "standard" =>
                materials[drawables[i].material].initialized

\* C3: a failure while processing one drawable is absorbed for that drawable
\* only: every drawable that can itself be drawn is still recorded and the
\* frame is still submitted.
C3_DrawableFailureIsLocal ==
    (frame.op = "render" /\ frame.passBegun) =>
        /\ frame.submits = 1
        /\ \A i \in 1..Len(drawables) :
              DrawOutcome(drawables[i], materials, gpu) = "draw" => i \in Drawn

\* C4: when the surface has no current image, render() logs it, returns
\* without throwing and submits nothing; the render() call that follows
\* with an image and a valid depth view records its pass.
C4_NoImageFrameIsSkipped ==
    [][ /\ (frame'.op = "render" /\ frame'.surface = "none") =>
             /\ frame'.submits = 0
             /\ ~frame'.passBegun
             /\ frame'.draws = <<>>
             /\ frame'.logs # {}
             /\ ~frame'.threw
        /\ (/\ frame.op = "render" /\ frame.surface = "none"
            /\ frame'.op = "render" /\ frame'.surface = "ok"
            /\ renderer'.depthTextureView) =>
             /\ frame'.passBegun
             /\ frame' = RenderedFrame(renderer, canvas, drawables, materials, gpu, "ok")
      ]_vars

\* C4 witness: a frame without a surface image has just been rendered
C4_Witness ==
    /\ frame.op = "render"
    /\ frame.surface = "none"
    /\ frame.logs = {"No current texture available."}
    /\ frame.submits = 0

\* C5: once dispose() has been called, no later render() recreates the depth
\* attachment, records a render pass or submits GPU work.
C5_DisposedIsTerminal ==
    (frame.op = "render" /\ frame.afterDispose) =>
        /\ ~frame.depthRecreated
        /\ ~renderer.depthTexture
        /\ ~frame.passBegun
        /\ frame.submits = 0

\* C7: the matrix written to the camera uniform buffer by render() is the one
\* the camera's getViewProjectionMatrix() returns.
C7_UniformIsCameraViewProjection ==
    frame.op = "render" =>
        renderer.cameraUniformBuffer = ViewProjectionReturned(GetViewProjectionMatrix(camera))

\* the entities of ds, from the i-th on, that have both a mesh and a material
RECURSIVE CompleteFrom(_, _)
CompleteFrom(i, ds) ==
    IF i > Len(ds) THEN <<>>
    ELSE (IF ds[i].mesh /\ ds[i].material # 0 THEN <<i>> ELSE <<>>) \o CompleteFrom(i + 1, ds)

\* C16: render() skips an entity whose mesh or material is missing without
\* raising, and the skip changes nothing for the others: the frame records
\* exactly the draw calls, and makes the submission, that the same scene
\* without the incomplete entities gets.
C16_MissingReferenceIsSkipped ==
    (frame.op = "render" /\ frame.passBegun) =>
        LET idx == CompleteFrom(1, drawables)
            others == [k \in 1..Len(idx) |-> drawables[idx[k]]]
            drawn == DrawnFrom(1, others, materials, gpu)
        IN /\ ~frame.threw
           /\ \A i \in Drawn : drawables[i].mesh /\ drawables[i].material # 0
           /\ frame.draws = [k \in 1..Len(drawn) |-> idx[drawn[k]]]
           /\ frame.submits = IF LoopThrows(others, materials, gpu) THEN 0 ELSE 1

\* a frame with an incomplete entity followed by a drawn one was submitted
C16_Witness ==
    /\ frame.op = "render"
    /\ frame.submits = 1
    /\ \E i, j \in 1..Len(drawables) :
          /\ i < j
          /\ ~drawables[i].mesh \/ drawables[i].material = 0
          /\ j \in Drawn

\* C17: a render() call submits at most once, and only a pass that was begun,
\* ended and whose command encoder was finished; a frame aborted before or
\* inside the pass submits nothing.
C17_OneSubmissionAfterPassEnd ==
    frame.op = "render" =>
        /\ frame.submits \in {0, 1}
        /\ frame.submits = 1 =>
              /\ frame.passBegun /\ frame.passEnded
              /\ "Command buffer finished" \in frame.logs
        /\ (~frame.passBegun \/ ~frame.passEnded) => frame.submits = 0

\* a frame was aborted inside its pass, after a draw call had been recorded
C17_Witness ==
    /\ frame.op = "render"
    /\ frame.passBegun /\ ~frame.passEnded
    /\ frame.draws # <<>>
    /\ frame.submits = 0

\* C21: every draw call of a submitted frame reads, when the command buffer
\* executes, the object uniforms that were written for its own entity, also
\* when several entities use the same material instance.
C21_DrawReadsOwnUniforms ==
    (frame.op = "render" /\ frame.submits = 1) =>
        \A k \in 1..Len(frame.draws) : frame.reads[k] = frame.draws[k]

\* C35: every draw call a frame records is for a drawable whose object-tier
\* (slot 1) and material-tier (slot 2) bind groups exist (the camera bind
\* group of slot 0 is held by every initialized renderer); a drawable lacking
\* one of them is not drawn.  A standard or
\* cubemap material holds both bind groups itself; for a built-in material
\* they are the MeshRenderer's modelBindGroup and materialBindGroup, which
\* nothing creates.
C35_DrawsHaveBindGroups ==
    frame.op = "render" =>
        \A i \in Drawn :
            LET m == materials[drawables[i].material]
            IN /\ m.type \in {"cubemap", "standard"}
               /\ m.modelBindGroup
               /\ m.bindGroup

(***************************************************************************)
(* Claims about initialize() and dispose() (checked under SpecLifecycle)   *)
(***************************************************************************)
\* the renderer holds none of the objects initialize() acquires
HoldsNothing(r) ==
    /\ ~r.adapter /\ ~r.device /\ ~r.context
    /\ ~r.depthTexture /\ ~r.depthTextureView
    /\ ~r.basicPipeline /\ ~r.cameraUniformBufferHeld /\ ~r.cameraBindGroup

\* C18: when a step of Renderer.initialize() fails, the error reaches the
\* caller and the renderer is as it was before the call: Uninitialized, with no
\* adapter, device, context, depth attachment or pipeline left from the attempt.
C18_FailedInitializeLeavesNothing ==
    [][(/\ obs'.lastOp = "Renderer.initialize" /\ obs'.ops = obs.ops + 1
        /\ renderer.initResult = "none" /\ renderer'.initResult # "ok")
       => /\ renderer'.initResult = "raised"
          /\ HoldsNothing(renderer')]_vars

\* C19: dispose() of the renderer and of a material may be called in every
\* state, also after an initialize() that failed part-way, and afterwards the
\* object holds none of its GPU resources (depth attachment, pipeline, uniform
\* buffer, bind groups); a second call right after the first changes nothing.
C19_DisposeReleasesAndIsIdempotent ==
    [][/\ (obs'.lastOp = "Renderer.dispose" /\ obs'.ops = obs.ops + 1) =>
            /\ ~renderer'.depthTexture /\ ~renderer'.depthTextureView
            /\ ~renderer'.basicPipeline
            /\ ~renderer'.cameraUniformBufferHeld /\ ~renderer'.cameraBindGroup
            /\ obs.lastOp = "Renderer.dispose" => renderer' = renderer
       /\ (obs'.lastOp = "Material.dispose" /\ obs'.ops = obs.ops + 1) =>
            /\ ~materials'[1].texture /\ ~materials'[1].bindGroup
            /\ ~materials'[1].modelUniformBuffer /\ ~materials'[1].modelBindGroup
            /\ ~materials'[1].pipeline
            /\ obs.lastOp = "Material.dispose" => materials' = materials]_vars

(***************************************************************************)
(* Claims about event listeners (checked under SpecListeners)              *)
(***************************************************************************)
\* C20: once an orbit controller has been disposed, by dispose() or by the
\* createOrbitControls() call that replaced it, an event on the canvas changes
\* nothing in it, and an event changes at most one controller of the camera.
C20_DisposedControlsIgnoreInput ==
    [][(obs'.lastOp \in {"mousedown", "mousemove", "wheel"} /\ obs'.ops = obs.ops + 1)
       => /\ \A k \in 1..Len(controls) : controls[k].disposed => controls'[k] = controls[k]
          /\ Cardinality({k \in 1..Len(controls) : controls'[k] # controls[k]}) <= 1]_vars

(***************************************************************************)
(* Claims about the rotation uniforms (checked under SpecRotator)          *)
(***************************************************************************)
\* C22: the axis and speed uploaded for an entity are those of its Rotator
\* when it has one, whichever of Rotator and MeshRenderer was added first, and
\* the uploaded speed is 0 when it has none.
C22_UploadedRotationIsRotators ==
    obs.lastOp = "upload" =>
        LET e == drawables[1]
        IN IF e.rotator.present
           THEN e.uploaded.axis = e.rotator.axis /\ e.uploaded.speed = e.rotator.speed
           ELSE e.uploaded.speed = 0

(***************************************************************************)
(* Claims about the sample game (checked under SpecGame)                   *)
(***************************************************************************)
\* C23: in a scene update in which the player begins to overlap the obstacle
\* the player loses exactly one life, and in one in which it begins to overlap
\* a collectible the score grows by 100 and the item leaves the scene.
C23_OverlapCostsLifeOrCollects ==
    [][obs'.lastOp = "sceneUpdate" =>
        LET player == game.entities[game.player]
            Begins(id) == /\ CheckCollision(game.entities[id], player)
                          /\ game.player \notin game.entities[id].collidingWith
        IN /\ \A o \in game.obstacles :
                Begins(o) => game'.lives = game.lives - 1
           /\ \A c \in game.collectibles :
                Begins(c) => game'.score = game.score + L /\ c \notin game'.scene]_vars

\* C36: while the gameplay state is paused or game over an update() leaves
\* every entity component, the lives and the score as they were.
C36_PausedGameIsFrozen ==
    [][(obs'.lastOp = "sceneUpdate" /\ (game.paused \/ game.gameOver)) =>
          /\ game'.entities = game.entities
          /\ game'.lives = game.lives
          /\ game'.score = game.score]_vars

\* C37: the callbacks of a collider follow Enter, Stay*, Exit for each other
\* entity: in a scene update onCollisionEnter is called only for an entity the
\* box overlaps now and did not overlap at the collider's previous update,
\* onCollisionStay only for one it overlaps at both, and onCollisionExit only
\* for one it overlapped then, overlaps no longer, and that is still in the
\* scene.
C37_CallbacksFollowEnterStayExit ==
    [][obs'.lastOp = "sceneUpdate" =>
          \A e \in game'.events :
              LET self == e[1]
                  other == e[3]
                  now == CheckCollision(game.entities[self], game.entities[other])
                  before == other \in game.entities[self].overlapped
              IN /\ e[2] = "onCollisionEnter" => now /\ ~before
                 /\ e[2] = "onCollisionStay" => now /\ before
                 /\ e[2] = "onCollisionExit" => before /\ ~now /\ other \in game'.scene]_vars

\* a scene update, after a collectible was removed from the scene, in which a
\* collider was told of the end of a collision
C37_Witness ==
    /\ obs.lastOp = "sceneUpdate"
    /\ game.listening
    /\ game.scene # {1, 2, 3}
    /\ \E e \in game.events : e[2] = "onCollisionExit"

(***************************************************************************)
(* Claims about the game state machine (checked under SpecManager)         *)
(***************************************************************************)
\* C26: every game state is exited at most once, only after its enter() has
\* completed, and does no setup work after its exit(), also when a second
\* changeState() is made while the first still awaits enter().
C26_ExitOnceAfterEnterCompleted ==
    \A k \in 1..Len(game.instances) :
        /\ game.instances[k].exits <= 1
        /\ ~game.instances[k].exitedEntering
        /\ ~game.instances[k].setupAfterExit

\* some state was updated in the step
SomeStateUpdated ==
    \E k \in 1..Len(game'.instances) :
        game'.instances[k].updates >
            (IF k <= Len(game.instances) THEN game.instances[k].updates ELSE 0)

\* C27: a state is updated only when its enter() has completed, also when
\* changeState() was called directly while the loop is running.
C27_UpdateOnlyEnteredStates ==
    [][\A k \in 1..Len(game.instances) :
          game'.instances[k].updates > game.instances[k].updates
              => game'.instances[k].enter = "done"]_vars

\* C28: a scheduled change to a registered state stays pending until a
\* processStateChange() of the loop performs it (or a newer
\* scheduleStateChange() replaces it), also when it was scheduled while another
\* change is in progress: it is never dropped.
C28_ScheduledChangeNotLost ==
    [][(game.nextStateId \in game.states /\ game'.nextStateId # game.nextStateId) =>
          \/ obs'.lastOp = "scheduleStateChange"
          \/ /\ obs'.lastOp = "frame"
             /\ Len(game'.instances) = Len(game.instances) + 1
             /\ game'.instances[Len(game'.instances)].id = game.nextStateId]_vars

\* C29: no state is updated while a change is pending, that is scheduled and
\* not yet taken by a processStateChange(), and a frame that finds a change
\* pending starts it, and waits for it, before it updates any state.
C29_PendingChangeBeforeUpdate ==
    [][/\ SomeStateUpdated => obs'.history = <<>>
       /\ (obs'.lastOp = "frame" /\ obs'.ops = obs.ops + 1 /\ obs.history # <<>>) =>
             /\ game'.nextStateId = "null"
             /\ obs.history[1] \in game.states =>
                   /\ ~SomeStateUpdated
                   /\ Len(game'.instances) = Len(game.instances) + 1
                   /\ game'.instances[game'.currentState].id = obs.history[1]]_vars

\* C30: changeState() with an unregistered id returns false and changes nothing
\* of the game: the current state is neither exited nor replaced and the pending
\* change is as it was.
C30_UnregisteredChangeIsRefused ==
    [][(obs'.lastOp = "changeState" /\ obs'.ops = obs.ops + 1
            /\ game'.last.id \notin game.states) =>
          /\ game'.last.returned = "false"
          /\ [game' EXCEPT !.last = game.last] = game]_vars

\* an unregistered id was refused while a state was current and a change pending
C30_Witness ==
    /\ obs.lastOp = "changeState"
    /\ game.last.id \notin game.states
    /\ game.currentState # 0
    /\ game.nextStateId # "null"

(***************************************************************************)
(* Claims about the game statistics (checked under SpecRestart)            *)
(***************************************************************************)
\* C31: the gameplay state created by restartGame() starts a new game: score 0,
\* level 1, lives 3, whatever the state being left held.
C31_RestartStartsNewGame ==
    [][(obs'.lastOp = "restartGame" /\ obs'.ops = obs.ops + 1) =>
          /\ game'.currentState.score = 0
          /\ game'.currentState.level = 1
          /\ game'.currentState.lives = 3]_vars

(***************************************************************************)
(* Claims about the music (checked under SpecAudio)                        *)
(***************************************************************************)
\* C32: a firing fade-out timer stops the music that was current when the fade
\* was started and no other: music started since keeps playing and stays the
\* current music.
C32_FadeStopsTheFadedMusic ==
    [][(obs'.lastOp = "timer" /\ obs'.ops = obs.ops + 1) =>
          \E i \in 1..Len(game.timers) :
              LET faded == game.timers[i].fading
              IN /\ ~game'.sources[faded].playing
                 /\ \A k \in 1..Len(game.sources) :
                        k # faded => game'.sources[k].playing = game.sources[k].playing
                 /\ game'.currentMusic = IF game.currentMusic = faded THEN 0
                                         ELSE game.currentMusic]_vars

(***************************************************************************)
(* Claims about the frame loops of one engine (checked under SpecEngine)   *)
(***************************************************************************)
\* C34: while the engine is marked running a frame is scheduled or an
\* invocation of the loop function is in progress, also after a state change
\* failed or the frame callback threw.
C34_RunningEngineHasFrameScheduled ==
    engine.running => Cardinality(loop.pending) + loop.awaiting >= 1

\* C33: at most one frame loop is active: the animation-frame requests not yet
\* fired and the suspended invocations of the loop function are together at
\* most one, whatever start() and stop() calls were made.
C33_AtMostOneLoop ==
    Cardinality(loop.pending) + loop.awaiting <= 1

(***************************************************************************)
(* Claims about the camera (checked under SpecCamera)                      *)
(***************************************************************************)
\* C8: getViewProjectionMatrix() returns projectionMatrix x viewMatrix of the
\* camera's current view and projection matrices.
C8_ViewProjectionIsProduct ==
    obs.lastOp = "Camera.getViewProjectionMatrix" =>
        obs.returned = MultiplyMatrices(camera.projectionMatrix, camera.viewMatrix)

C25_ResizeDirtiesAutoAspectOnly ==
    [][/\ (obs'.lastOp = "Camera.resize" /\ obs'.ops = obs.ops + 1) =>
             camera' = IF camera.aspectAuto
                       THEN [camera EXCEPT !.projectionDirty = TRUE]
                       ELSE camera
       /\ (obs'.lastOp = "Camera.getProjectionMatrix" /\ obs'.ops = obs.ops + 1) =>
             ~camera'.projectionDirty]_vars

\* a resize() of a camera with an explicit aspect ratio whose projection had
\* been computed before
C25_Witness ==
    obs.lastOp = "Camera.resize" /\ ~camera.aspectAuto /\ ~camera.projectionDirty

(***************************************************************************)
(* Claims about the engine loop (checked under SpecEngine)                 *)
(***************************************************************************)
\* C6: while the engine is stopped (stop() has returned and start() has not
\* been called again) the frame callback is not invoked and no animation
\* frame is requested.
C6_NothingRunsAfterStop ==
    [][ (~engine.running /\ ~engine'.running) =>
            /\ loop'.callbackCalls = loop.callbackCalls
            /\ loop'.requests = loop.requests
      ]_vars

Init == InitOrbit
Next == NextOrbit
Spec == Init /\ [][Next]_vars
====
